---- MODULE Spec2Model ----
(***************************************************************************)
(* AgentTracer: baseline manager (server/core/baselines.py) and run ingest *)
(* (server/api/ingest.py, server/models/database.py) over a read-committed *)
(* relational store.  Each caller owns one SQLAlchemy session; a session's *)
(* writes reach the committed tables only at commit.  The two subsystems   *)
(* share no table: each specification below moves one of them.             *)
(***************************************************************************)
EXTENDS Integers, Sequences, FiniteSets, TLC

\* ---------------------------------------------------------------- bounds
MaxBaselines == 2
MaxClock == 1
MaxSteps == 2
MaxSeq == 2
MaxRecorded == 1
MaxRuns == 3
MaxTime == 2
MaxObserved == 2
MaxDrifts == 1
MaxDescription == 200
MaxLater == 2
MaxContexts == 4

None == "None"

\* (agent_id, agent_version, environment) triples
Keys == {"k1", "k2"}
ProfileIds == {"p1", "p2"}
BaselineIds == 1..MaxBaselines
Callers == {"c1", "c2"}
Users == {"alice"}

VARIABLES
    behavior_baselines, \* committed rows of table behavior_baselines, by baseline_id
    sess,               \* per caller: the session of its call in progress or last finished
    now,                \* datetime.utcnow()
    agent_runs,         \* committed rows of agent_runs
    agent_steps,        \* committed rows of agent_steps
    agent_failures,     \* committed rows of agent_failures
    agent_decisions,    \* committed rows of agent_decisions
    agent_quality_signals, \* committed rows of agent_quality_signals
    req,                \* per POST /v1/runs request: its position in ingest_run
    run_ctx,            \* the SDK's RunContext of one agent run
    profile_call,       \* the last build_profile call: arguments and result
    behavior_profiles,  \* committed rows of behavior_profiles, by profile_id
    behavior_drift,     \* committed rows of behavior_drift, by drift_id
    drift_call,         \* the last detect_drift call: arguments and result
    resolve_call,       \* per caller: its POST /v1/drift/{drift_id}/resolve request
    alert_call          \* the last AlertEmitter.emit call: arguments and effects

bvars == <<behavior_baselines, sess, now>>

svars == <<run_ctx>>

pvars == <<profile_call>>

dvars == <<behavior_profiles, behavior_drift, drift_call, resolve_call, alert_call>>

ivars == <<agent_runs, agent_steps, agent_failures, agent_decisions,
           agent_quality_signals, req>>

tables == <<agent_runs, agent_steps, agent_failures, agent_decisions,
            agent_quality_signals>>

vars == <<behavior_baselines, sess, now, agent_runs, agent_steps, agent_failures,
          agent_decisions, agent_quality_signals, req,
          run_ctx, profile_call, behavior_profiles, behavior_drift, drift_call,
          resolve_call, alert_call>>

\* ------------------------------------------------------- baseline manager

\* mutation of NewBaseline: the row is created active
NewBaselineActive(profile, key, by, t) ==
    [profile_id  |-> profile,
     key         |-> key,
     approved_by |-> by,
     approved_at |-> IF by # None THEN <<t>> ELSE <<>>,
     baseline_type |-> "version",
     description |-> <<>>,
     is_active   |-> TRUE,
     created_at  |-> <<t>>]

\* BehaviorBaselineDB(...) as built by create_baseline: always inactive.
\* A nullable timestamp is <<>> (NULL) or <<t>>.
NewBaseline(profile, key, by, t) ==
    [profile_id  |-> profile,
     key         |-> key,
     approved_by |-> by,
     approved_at |-> IF by # None THEN <<t>> ELSE <<>>,
     baseline_type |-> "version",
     description |-> <<>>,
     is_active   |-> FALSE,
     created_at  |-> <<t>>]

\* pc: idle | get_active | commit | done.  ins, orig, objs are the session's
\* flushed insert and identity map (attributes as loaded / as now set);
\* arg is the baseline_id the call was given (input: the baseline_type and
\* description create_baseline was given), target the row it works on;
\* ok, auto, wasActive, swapped describe the call for the properties below.
IdleSession ==
    [pc |-> "idle", op |-> None, arg |-> 0, input |-> <<>>, target |-> 0,
     auto |-> FALSE,
     ins |-> {}, orig |-> <<>>, objs |-> <<>>,
     ok |-> FALSE, wasActive |-> FALSE, swapped |-> 0]

\* rows a session's queries see: committed rows plus its own flushed insert
Visible(s) ==
    [b \in (DOMAIN behavior_baselines) \cup s.ins |->
        IF b \in s.ins THEN s.orig[b] ELSE behavior_baselines[b]]

\* a query result enters the identity map; a row already there keeps its object
Load(s, view, b) ==
    IF b \in DOMAIN s.objs THEN s
    ELSE [s EXCEPT !.orig = (b :> view[b]) @@ s.orig,
                   !.objs = (b :> view[b]) @@ s.objs]

\* mutation of get_baseline: an unknown baseline_id finds some other row
get_baseline_or_first(view, baseline_id) ==
    IF baseline_id \in DOMAIN view THEN baseline_id
    ELSE IF DOMAIN view = {} THEN 0
    ELSE CHOOSE b \in DOMAIN view : \A other \in DOMAIN view : b <= other

\* get_baseline: the id when a row with this baseline_id is visible, else 0
get_baseline(view, baseline_id) ==
    IF baseline_id \in DOMAIN view THEN baseline_id ELSE 0

\* get_active_baseline: the rows .first() can return (no ORDER BY)
get_active_baseline(view, key) ==
    {b \in DOMAIN view : view[b].key = key /\ view[b].is_active}

\* mutation of ActivateSets: the existing active baseline is left active
ActivateSetsKeepOld(objs, baseline_id, existing_active) ==
    [objs EXCEPT ![baseline_id].is_active = TRUE]

\* mutation of ActivateSets: the target is not activated when one is replaced
ActivateSetsOnlyDeactivate(objs, baseline_id, existing_active) ==
    IF existing_active # 0 /\ existing_active # baseline_id
    THEN [objs EXCEPT ![existing_active].is_active = FALSE]
    ELSE [objs EXCEPT ![baseline_id].is_active = TRUE]

\* mutation of ActivateSets: the target is activated first and the existing
\* active baseline is deactivated without the baseline_id test
ActivateSetsNoIdTest(objs, baseline_id, existing_active) ==
    LET act == [objs EXCEPT ![baseline_id].is_active = TRUE]
    IN IF existing_active # 0
       THEN [act EXCEPT ![existing_active].is_active = FALSE]
       ELSE act

\* activate_baseline, lines 195-199: attribute writes on the loaded objects
ActivateSets(objs, baseline_id, existing_active) ==
    LET deact == IF existing_active # 0 /\ existing_active # baseline_id
                 THEN [objs EXCEPT ![existing_active].is_active = FALSE]
                 ELSE objs
    IN [deact EXCEPT ![baseline_id].is_active = TRUE]

\* deactivate_baseline, line 224
DeactivateSets(objs, baseline_id) ==
    [objs EXCEPT ![baseline_id].is_active = FALSE]

\* mutation of ApproveSets: approval also activates the baseline
ApproveSetsActivating(objs, baseline_id, approved_by, t) ==
    [objs EXCEPT ![baseline_id].approved_by = approved_by,
                 ![baseline_id].approved_at = <<t>>,
                 ![baseline_id].is_active = TRUE]

\* approve_baseline, lines 161-162
ApproveSets(objs, baseline_id, approved_by, t) ==
    [objs EXCEPT ![baseline_id].approved_by = approved_by,
                 ![baseline_id].approved_at = <<t>>]

\* flush of one persistent object: UPDATE ... SET <changed attributes>
UpdateRow(dbrow, o, n) ==
    [f \in DOMAIN dbrow |-> IF n[f] # o[f] THEN n[f] ELSE dbrow[f]]

\* Session.commit: flush the pending UPDATEs, then COMMIT
CommitTable(table, s) ==
    [b \in (DOMAIN table) \cup s.ins |->
        IF b \in s.ins THEN s.objs[b]
        ELSE IF b \in DOMAIN s.objs THEN UpdateRow(table[b], s.orig[b], s.objs[b])
        ELSE table[b]]

InFlight(c) == sess[c].pc \notin {"idle", "done"}

\* gen_random_uuid(): a baseline_id no row and no pending insert uses
FreeIds ==
    {b \in BaselineIds :
        /\ b \notin DOMAIN behavior_baselines
        /\ \A c \in Callers : b \notin sess[c].ins}

\* the call returns or raises: the session is closed
Done(s, ok) ==
    [IdleSession EXCEPT !.pc = "done", !.op = s.op, !.arg = s.arg,
                        !.input = s.input,
                        !.target = s.target,
                        !.auto = s.auto, !.ok = ok, !.wasActive = s.wasActive,
                        !.swapped = s.swapped]

\* a description is <<>> for None or <<text>>, text the sequence of its
\* characters
forbidden_keywords ==
    {<<"p", "r", "o", "m", "p", "t">>, <<"r", "e", "s", "p", "o", "n", "s", "e">>,
     <<"r", "e", "a", "s", "o", "n", "i", "n", "g">>,
     <<"t", "h", "o", "u", "g", "h", "t">>, <<"m", "e", "s", "s", "a", "g", "e">>,
     <<"c", "o", "n", "t", "e", "n", "t">>, <<"t", "e", "x", "t">>,
     <<"o", "u", "t", "p", "u", "t">>, <<"i", "n", "p", "u", "t">>,
     <<"c", "h", "a", "i", "n", "_", "o", "f", "_", "t", "h", "o", "u", "g", "h", "t">>,
     <<"e", "x", "p", "l", "a", "n", "a", "t", "i", "o", "n">>,
     <<"r", "a", "t", "i", "o", "n", "a", "l", "e">>}

\* str.lower(), for the one capital the descriptions of the model use
description_lower(description) ==
    [i \in DOMAIN description |->
        IF description[i] = "T" THEN "t" ELSE description[i]]

\* mutation of _validate_description: keywords are matched case-sensitively
_validate_description_case_sensitive(description) ==
    IF description = <<>> THEN TRUE
    ELSE LET text == description[1]
         IN /\ \A keyword \in forbidden_keywords :
                 \A i \in 0..(Len(text) - Len(keyword)) :
                    \E j \in 1..Len(keyword) : text[i + j] # keyword[j]
            /\ Len(description[1]) <= MaxDescription

\* _validate_description: TRUE when it returns, FALSE when it raises ValueError
_validate_description(description) ==
    IF description = <<>> THEN TRUE
    ELSE LET lowered == description_lower(description[1])
         IN /\ \A keyword \in forbidden_keywords :
                 \A i \in 0..(Len(lowered) - Len(keyword)) :
                    \E j \in 1..Len(keyword) : lowered[i + j] # keyword[j]
            /\ Len(description[1]) <= MaxDescription

\* create_baseline, line 97
valid_types == {"version", "time_window", "manual"}

\* create_baseline up to the flush (and, with auto_activate, get_baseline of
\* the row just flushed, which the session's own insert always satisfies)
CreateBaseline(c, profiles, approvers, types, descriptions) ==
    /\ ~InFlight(c)
    /\ FreeIds # {}
    /\ \E description \in descriptions :
        \E safe \in {_validate_description(description)} :
        \E profile \in profiles, key \in Keys, by \in approvers, auto \in BOOLEAN,
           baseline_type \in types :
        LET b == CHOOSE x \in FreeIds : \A y \in FreeIds : x <= y
            row == [NewBaseline(profile, key, by, now) EXCEPT
                       !.baseline_type = baseline_type,
                       !.description = description]
            s0 == [IdleSession EXCEPT !.op = "create", !.auto = auto,
                                      !.input = <<baseline_type, description>>]
        IN sess' = [sess EXCEPT ![c] =
                IF ~safe \/ baseline_type \notin valid_types
                THEN Done(s0, FALSE)
                ELSE [s0 EXCEPT !.pc = IF auto THEN "get_active" ELSE "commit",
                                !.target = b,
                                !.ins = {b}, !.orig = (b :> row),
                                !.objs = (b :> row)]]
    /\ UNCHANGED <<behavior_baselines, now>>
    /\ UNCHANGED <<ivars, svars, pvars, dvars>>

\* activate_baseline, lines 183-186
ActivateBaseline(c) ==
    /\ ~InFlight(c)
    /\ \E id \in BaselineIds :
        LET s0 == [IdleSession EXCEPT !.op = "activate", !.arg = id, !.target = id]
            view == Visible(s0)
            baseline == get_baseline(view, id)
        IN sess' = [sess EXCEPT ![c] =
              IF baseline = 0
              THEN Done(s0, FALSE)
              ELSE [Load(s0, view, baseline) EXCEPT
                       !.pc = "get_active", !.target = baseline,
                       !.wasActive = view[baseline].is_active]]
    /\ UNCHANGED <<behavior_baselines, now>>
    /\ UNCHANGED <<ivars, svars, pvars, dvars>>

\* the ids whose is_active the session has turned off
Swapped(s, objs) ==
    {b \in DOMAIN objs : b # s.target /\ s.orig[b].is_active /\ ~objs[b].is_active}

\* activate_baseline, lines 189-199
GetActiveBaseline(c) ==
    /\ sess[c].pc = "get_active"
    /\ LET s == sess[c]
           view == Visible(s)
           found == get_active_baseline(view, view[s.target].key)
       IN \E existing_active \in (IF found = {} THEN {0} ELSE found) :
            LET s1 == IF existing_active = 0 THEN s
                      ELSE Load(s, view, existing_active)
                objs == ActivateSets(s1.objs, s.target, existing_active)
                off == Swapped(s1, objs)
            IN sess' = [sess EXCEPT ![c] =
                  [s1 EXCEPT !.pc = "commit", !.objs = objs,
                             !.swapped = IF off = {} THEN 0
                                         ELSE CHOOSE b \in off : TRUE]]
    /\ UNCHANGED <<behavior_baselines, now>>
    /\ UNCHANGED <<ivars, svars, pvars, dvars>>

\* deactivate_baseline, lines 219-224
DeactivateBaseline(c) ==
    /\ ~InFlight(c)
    /\ \E id \in BaselineIds :
        LET s0 == [IdleSession EXCEPT !.op = "deactivate", !.arg = id, !.target = id]
            view == Visible(s0)
            baseline == get_baseline(view, id)
            s1 == Load(s0, view, baseline)
        IN sess' = [sess EXCEPT ![c] =
              IF baseline = 0
              THEN Done(s0, FALSE)
              ELSE [s1 EXCEPT !.pc = "commit", !.target = baseline,
                              !.wasActive = view[baseline].is_active,
                              !.objs = DeactivateSets(s1.objs, baseline)]]
    /\ UNCHANGED <<behavior_baselines, now>>
    /\ UNCHANGED <<ivars, svars, pvars, dvars>>

\* approve_baseline, lines 155-162
ApproveBaseline(c) ==
    /\ ~InFlight(c)
    /\ \E id \in BaselineIds, approved_by \in Users :
        LET s0 == [IdleSession EXCEPT !.op = "approve", !.arg = id, !.target = id]
            view == Visible(s0)
            baseline == get_baseline(view, id)
            s1 == Load(s0, view, baseline)
        IN sess' = [sess EXCEPT ![c] =
              IF baseline = 0
              THEN Done(s0, FALSE)
              ELSE [s1 EXCEPT !.pc = "commit", !.target = baseline,
                              !.wasActive = view[baseline].is_active,
                              !.objs = ApproveSets(s1.objs, baseline, approved_by,
                                                   now)]]
    /\ UNCHANGED <<behavior_baselines, now>>
    /\ UNCHANGED <<ivars, svars, pvars, dvars>>

\* self.db.commit() and return
Commit(c) ==
    /\ sess[c].pc = "commit"
    /\ behavior_baselines' = CommitTable(behavior_baselines, sess[c])
    /\ sess' = [sess EXCEPT ![c] = Done(sess[c], TRUE)]
    /\ UNCHANGED now
    /\ UNCHANGED <<ivars, svars, pvars, dvars>>

Tick ==
    /\ now < MaxClock
    /\ now' = now + 1
    /\ UNCHANGED <<behavior_baselines, sess>>
    /\ UNCHANGED <<ivars, svars, pvars, dvars>>


\* ------------------------------------------------------------ run ingest

RunIds == {"r1", "r2"}
Requests == {"q1", "q2"}
Statuses == {"success", "failure"}
\* the "failure" member of the JSON body: absent, null, or an object
FailureInputs == {"omitted", "null", "object"}
\* number of entries of "decisions" / "quality_signals"
ChildCounts == {0, 1}

StepLists(maxLen) == UNION {[1..n -> 0..MaxSeq] : n \in 0..maxLen}

\* top-level keys a metadata object of a body may hold
MetadataKeys == {"tool_name", "Prompt", "message", "reasoning", "rationale"}

\* str.lower() on these keys
lower(key) == IF key = "Prompt" THEN "prompt" ELSE key

\* the kinds of value a metadata entry may hold: a string of at most 100
\* characters, a longer string, a number, a list, a nested object
ValueKinds == {"str", "long_str", "int", "list", "dict"}

\* metadata objects, as the set of their items <<key, kind of value>>; these
\* hold short strings under any key
MetadataObjects == {{}} \cup {{<<key, "str">>} : key \in MetadataKeys}

\* metadata objects holding a value of any kind under a harmless key
MetadataValues == {{}} \cup {{<<"tool_name", kind>>} : kind \in ValueKinds}

\* part of the catalog of server/enums.py
DecisionType == {"tool_selection", "retry_strategy"}

DECISION_REASON_CODES ==
    [dt \in DecisionType |->
        IF dt = "tool_selection" THEN {"fresh_data_required", "cost_optimization"}
        ELSE {"backoff_required"}]

SignalType == {"schema_valid", "tool_failure"}

SIGNAL_CODES ==
    [st \in SignalType |->
        IF st = "schema_valid" THEN {"full_match", "partial_match"}
        ELSE {"timeout"}]

\* tags a caller may offer: those of the catalog and unknown ones
DecisionTypeInputs == DecisionType \cup {"mood"}
ReasonCodeInputs == {"fresh_data_required", "backoff_required", "because"}
SignalTypeInputs == SignalType \cup {"vibe"}
SignalCodeInputs == {"full_match", "timeout", "fine"}

\* one entry of "decisions" / of "quality_signals"
DecisionItems(types, codes, metas) ==
    [decision_type : types, selected : {"call_api"}, reason_code : codes,
     candidates : BOOLEAN, metadata : metas]

SignalItems(types, codes, metas) ==
    [signal_type : types, signal_code : codes, metadata : metas]

PlainDecision ==
    [decision_type |-> "tool_selection", selected |-> "call_api",
     reason_code |-> "fresh_data_required", candidates |-> FALSE, metadata |-> {}]

PlainSignal ==
    [signal_type |-> "schema_valid", signal_code |-> "full_match", metadata |-> {}]

\* request bodies: steps is the list of the steps' seq values, step_metadata
\* the metadata of each step, decision and signal the entry that the lists
\* decisions and quality_signals hold decisions / quality_signals times;
\* agent stands for (agent_id, agent_version, environment), times are seconds
Bodies(stepLists, stepMetas, decisionItems, signalItems) ==
    [run_id : RunIds, agent : {"k1"}, started_at : {0}, ended_at : {<<1>>},
     status : Statuses, failure : FailureInputs,
     steps : stepLists, decisions : ChildCounts, quality_signals : ChildCounts,
     step_metadata : stepMetas, decision : decisionItems, signal : signalItems]

\* bodies with plain metadata and tags
Payloads(stepLists) == Bodies(stepLists, {{}}, {PlainDecision}, {PlainSignal})

\* pc: idle | check | create_run | create_steps | commit | done.  txn_run and
\* txn_steps tell what the open transaction has flushed; failed_at is the pc
\* at which an exception was raised.
IdleRequest ==
    [pc |-> "idle", payload |-> None, txn_run |-> FALSE, txn_steps |-> FALSE,
     outcome |-> None, status_code |-> None, body |-> None, failed_at |-> None]

\* sorted(sequences)
RECURSIVE InsertSorted(_, _)
InsertSorted(x, s) ==
    IF s = <<>> THEN <<x>>
    ELSE IF x <= Head(s) THEN <<x>> \o s
    ELSE <<Head(s)>> \o InsertSorted(x, Tail(s))

RECURSIVE sorted(_)
sorted(s) == IF s = <<>> THEN <<>> ELSE InsertSorted(Head(s), sorted(Tail(s)))

\* list(range(n))
range(n) == [i \in 1..n |-> i - 1]

\* mutation of validate_step_sequence: only the first seq is checked
validate_step_sequence_first_only(v) ==
    IF v = <<>> THEN TRUE ELSE sorted(v)[1] = 0

\* AgentRunCreate.validate_step_sequence: TRUE when it returns, FALSE when it raises
validate_step_sequence(v) ==
    IF v = <<>> THEN TRUE ELSE sorted(v) = range(Len(v))

\* AgentRunCreate.validate_failure_on_failed_runs on the parsed value
validate_failure_on_failed_runs(v, status) ==
    ~(status = "failure" /\ v = None)

\* the value of field failure after parsing
FailureValue(input) == IF input = "object" THEN "object" ELSE None

\* AgentStepCreate.validate_safe_metadata
forbidden_keys ==
    {"prompt", "response", "output", "input", "content", "text", "message"}

validate_safe_metadata(v) == \A item \in v : lower(item[1]) \notin forbidden_keys

\* AgentDecisionCreate / AgentQualitySignalCreate .validate_metadata_privacy
BLOCKED_KEYS ==
    {"prompt", "response", "reasoning", "thought", "message", "content", "text",
     "output", "input", "chain_of_thought", "explanation", "rationale"}

validate_metadata_privacy(v) ==
    \A item \in v :
        /\ lower(item[1]) \notin BLOCKED_KEYS
        /\ item[2] \in {"str", "long_str", "int"}
        /\ item[2] # "long_str"

\* server/enums.py
validate_decision_type(decision_type) == decision_type \in DecisionType

validate_reason_code(decision_type, reason_code) ==
    IF decision_type \in DecisionType
    THEN reason_code \in DECISION_REASON_CODES[decision_type]
    ELSE FALSE

validate_signal_type(signal_type) == signal_type \in SignalType

validate_signal_code(signal_type, signal_code) ==
    IF signal_type \in SignalType
    THEN signal_code \in SIGNAL_CODES[signal_type]
    ELSE FALSE

\* AgentDecisionCreate(**entry): the reason_code validator looks the type up
\* in info.data, where it is only when its own validator passed
ValidateDecision(d) ==
    /\ validate_decision_type(d.decision_type)
    /\ validate_decision_type(d.decision_type) =>
           validate_reason_code(d.decision_type, d.reason_code)
    /\ validate_metadata_privacy(d.metadata)

\* AgentQualitySignalCreate(**entry)
ValidateSignal(g) ==
    /\ validate_signal_type(g.signal_type)
    /\ validate_signal_type(g.signal_type) =>
           validate_signal_code(g.signal_type, g.signal_code)
    /\ validate_metadata_privacy(g.metadata)

\* AgentRunCreate(**body): a field validator runs on a supplied value only; an
\* omitted field takes its default (failure = None) without validation
ValidateRun(p) ==
    /\ p.steps # <<>> => validate_safe_metadata(p.step_metadata)
    /\ p.decisions > 0 => ValidateDecision(p.decision)
    /\ p.quality_signals > 0 => ValidateSignal(p.signal)
    /\ validate_step_sequence(p.steps)
    /\ p.failure # "omitted" =>
           validate_failure_on_failed_runs(FailureValue(p.failure), p.status)

\* rows ingest_run writes for request r
RunRow(r, p) ==
    [run_id |-> p.run_id, agent |-> p.agent, started_at |-> p.started_at,
     ended_at |-> p.ended_at, status |-> p.status, by |-> r]

StepRows(r, p) ==
    {[run_id |-> p.run_id, by |-> r, idx |-> i, seq |-> p.steps[i],
      step_metadata |-> p.step_metadata] : i \in 1..Len(p.steps)}

\* _create_failure_record: if run.failure
FailureRows(r, p) ==
    IF FailureValue(p.failure) # None THEN {[run_id |-> p.run_id, by |-> r]} ELSE {}

\* _create_decision_records: a copy of the metadata, in which a non-empty
\* candidates list is stored under the key "candidates"
DecisionRows(r, p) ==
    {[run_id |-> p.run_id, by |-> r, idx |-> i,
      decision_type |-> p.decision.decision_type,
      selected |-> p.decision.selected,
      reason_code |-> p.decision.reason_code,
      decision_metadata |->
          IF p.decision.candidates
          THEN {item \in p.decision.metadata : item[1] # "candidates"}
                  \cup {<<"candidates", "list">>}
          ELSE p.decision.metadata] :
        i \in 1..p.decisions}

\* _create_quality_signal_records
SignalRows(r, p) ==
    {[run_id |-> p.run_id, by |-> r, idx |-> i,
      signal_type |-> p.signal.signal_type,
      signal_code |-> p.signal.signal_code,
      signal_metadata |-> p.signal.metadata] : i \in 1..p.quality_signals}

\* mutation of RunIdTaken: agent_runs.run_id is no key
RunIdNeverTaken(rows, run_id) == FALSE

\* primary key of agent_runs: a committed row holds this run_id
RunIdTaken(rows, run_id) == \E row \in rows : row.run_id = run_id

\* UniqueConstraint("run_id", "seq") of agent_steps within the inserted steps
StepSeqUnique(p) ==
    \A i, j \in 1..Len(p.steps) : p.steps[i] = p.steps[j] => i = j

\* mutation of Flushed: the flush commits
FlushedAndCommitted(committed, rows) == committed \cup rows

\* db.flush(): the INSERTs run inside the open transaction; the committed
\* rows other transactions read stay as they are
Flushed(committed, rows) == committed

\* db.query(AgentRunDB).filter(AgentRunDB.run_id == run_id): the rows found
ExistingRun(rows, run_id) == {row \in rows : row.run_id = run_id}

\* AgentRunResponse.model_validate(existing_run) of .first()
Response(found) == CHOOSE row \in found : TRUE

\* return / raise HTTPException: the session is closed
Respond(q, outcome, status_code, body) ==
    [q EXCEPT !.pc = "done", !.txn_run = FALSE, !.txn_steps = FALSE,
              !.outcome = outcome, !.status_code = status_code, !.body = body]

\* except IntegrityError: rollback, 409; except Exception: rollback, 500.
\* conflict is the IntegrityError of the agent_runs primary key, integrity
\* one of another constraint.
Failed(q, outcome) ==
    [Respond(q, outcome,
             IF outcome \in {"conflict", "integrity"} THEN "409" ELSE "500", None)
        EXCEPT !.failed_at = q.pc]

\* request parsing: AgentRunCreate validation before ingest_run is entered
Receive(r, payloads) ==
    /\ req[r].pc = "idle"
    /\ \E p \in payloads :
        req' = [req EXCEPT ![r] =
            IF ValidateRun(p)
            THEN [@ EXCEPT !.pc = "check", !.payload = p]
            ELSE Respond([@ EXCEPT !.payload = p], "rejected", "422", None)]
    /\ UNCHANGED tables
    /\ UNCHANGED <<bvars, svars, pvars, dvars>>

\* _check_duplicate_run
CheckDuplicate(r) ==
    /\ req[r].pc = "check"
    /\ req' = [req EXCEPT ![r] =
          IF ExistingRun(agent_runs, @.payload.run_id) # {}
          THEN Respond(@, "duplicate", "201",
                       Response(ExistingRun(agent_runs, @.payload.run_id)))
          ELSE [@ EXCEPT !.pc = "create_run"]]
    /\ UNCHANGED tables
    /\ UNCHANGED <<bvars, svars, pvars, dvars>>

\* another open transaction has inserted this run_id: the INSERT waits for it
InsertBlocked(r) ==
    \E o \in Requests \ {r} :
        req[o].txn_run /\ req[o].payload.run_id = req[r].payload.run_id

\* _create_run_record: db.add(db_run); db.flush()
CreateRun(r) ==
    /\ req[r].pc = "create_run"
    /\ ~InsertBlocked(r)
    /\ \E store \in {"ok", "error"} :
        LET p == req[r].payload
            result == IF RunIdTaken(agent_runs, p.run_id) THEN "conflict" ELSE store
        IN /\ req' = [req EXCEPT ![r] =
                  IF result = "ok"
                  THEN [@ EXCEPT !.pc = "create_steps", !.txn_run = TRUE]
                  ELSE Failed(@, result)]
           /\ agent_runs' = IF result = "ok"
                            THEN Flushed(agent_runs, {RunRow(r, p)})
                            ELSE agent_runs
    /\ UNCHANGED <<agent_steps, agent_failures, agent_decisions, agent_quality_signals>>
    /\ UNCHANGED <<bvars, svars, pvars, dvars>>

\* _create_step_records: db.add(db_step) for each step; db.flush()
CreateSteps(r) ==
    /\ req[r].pc = "create_steps"
    /\ \E store \in {"ok", "integrity", "error"} :
        LET p == req[r].payload
            result == IF ~StepSeqUnique(p) THEN "integrity" ELSE store
        IN /\ req' = [req EXCEPT ![r] =
                  IF result = "ok"
                  THEN [@ EXCEPT !.pc = "commit", !.txn_steps = TRUE]
                  ELSE Failed(@, result)]
           /\ agent_steps' = IF result = "ok"
                             THEN Flushed(agent_steps, StepRows(r, p))
                             ELSE agent_steps
    /\ UNCHANGED <<agent_runs, agent_failures, agent_decisions, agent_quality_signals>>
    /\ UNCHANGED <<bvars, svars, pvars, dvars>>

\* _create_failure_record, _create_decision_records,
\* _create_quality_signal_records, db.commit(), db.refresh(db_run), return
CommitRun(r) ==
    /\ req[r].pc = "commit"
    /\ \E store \in {"ok", "integrity", "error", "refresh_error"} :
        LET p == req[r].payload
            committed == store \in {"ok", "refresh_error"}
        IN /\ req' = [req EXCEPT ![r] =
                  IF store = "ok" THEN Respond(@, "created", "201", RunRow(r, p))
                  ELSE Failed(@, store)]
           /\ agent_runs' =
                 IF committed THEN agent_runs \cup {RunRow(r, p)} ELSE agent_runs
           /\ agent_steps' =
                 IF committed THEN agent_steps \cup StepRows(r, p) ELSE agent_steps
           /\ agent_failures' =
                 IF committed THEN agent_failures \cup FailureRows(r, p)
                 ELSE agent_failures
           /\ agent_decisions' =
                 IF committed THEN agent_decisions \cup DecisionRows(r, p)
                 ELSE agent_decisions
           /\ agent_quality_signals' =
                 IF committed THEN agent_quality_signals \cup SignalRows(r, p)
                 ELSE agent_quality_signals
    /\ UNCHANGED <<bvars, svars, pvars, dvars>>

\* ---------------------------------------------------------------- SDK

\* RunContext.__init__; payload holds the telemetry body once __exit__ built
\* it, _steps the seq of each recorded step, and step_contexts the StepContext
\* objects that step() returned, each with its seq and whether its started_at
\* is set and whether it was exited
NewRunContext ==
    [_steps |-> <<>>, _step_seq |-> 0, step_contexts |-> <<>>,
     _decisions |-> <<>>, _quality_signals |-> <<>>, payload |-> <<>>]

\* RunContext.step: the new StepContext takes seq = _step_seq, and _step_seq
\* is incremented
Step ==
    /\ run_ctx.payload = <<>>
    /\ run_ctx._step_seq < MaxContexts
    /\ run_ctx' = [run_ctx EXCEPT
           !.step_contexts = Append(@, [seq |-> run_ctx._step_seq,
                                        started_at |-> FALSE, exited |-> FALSE]),
           !._step_seq = @ + 1]
    /\ UNCHANGED <<bvars, ivars, pvars, dvars>>

\* StepContext.__enter__ of a context not entered before
EnterStep ==
    /\ run_ctx.payload = <<>>
    /\ \E i \in DOMAIN run_ctx.step_contexts :
          /\ ~run_ctx.step_contexts[i].started_at
          /\ run_ctx' = [run_ctx EXCEPT !.step_contexts[i].started_at = TRUE]
    /\ UNCHANGED <<bvars, ivars, pvars, dvars>>

\* StepContext.__exit__ of an entered context, at the end of its block or with
\* an exception passing through, inner and outer contexts in any order:
\* _add_step appends the step with the seq of the context
ExitStep ==
    /\ run_ctx.payload = <<>>
    /\ \E i \in DOMAIN run_ctx.step_contexts :
          /\ run_ctx.step_contexts[i].started_at
          /\ ~run_ctx.step_contexts[i].exited
          /\ run_ctx' = [run_ctx EXCEPT
                 !.step_contexts[i].exited = TRUE,
                 !._steps = Append(@, run_ctx.step_contexts[i].seq)]
    /\ UNCHANGED <<bvars, ivars, pvars, dvars>>

\* the confidence / weight argument: not given, within 0.0..1.0, or outside
RangeInputs == {"none", "in_range", "out_of_range"}

\* RunContext._validate_phase2_metadata: blocked keys are dropped
_validate_phase2_metadata(metadata) ==
    {<<item[1], IF item[2] = "long_str" THEN "str" ELSE item[2]>> :
        item \in {x \in metadata : /\ lower(x[1]) \notin BLOCKED_KEYS
                                   /\ x[2] \in {"str", "long_str", "int"}}}

\* RunContext.record_decision
RecordDecision(types, codes, metas) ==
    /\ run_ctx.payload = <<>>
    /\ Len(run_ctx._decisions) < MaxRecorded
    /\ \E decision_type \in types, reason_code \in codes, metadata \in metas,
          candidates \in BOOLEAN, confidence \in RangeInputs :
        run_ctx' =
            IF confidence = "out_of_range" THEN run_ctx
            ELSE [run_ctx EXCEPT !._decisions = Append(@,
                     [decision_type |-> decision_type, reason_code |-> reason_code,
                      candidates |-> candidates,
                      metadata |-> _validate_phase2_metadata(metadata)])]
    /\ UNCHANGED <<bvars, ivars, pvars, dvars>>

\* RunContext.record_quality_signal
RecordQualitySignal(types, codes, metas) ==
    /\ run_ctx.payload = <<>>
    /\ Len(run_ctx._quality_signals) < MaxRecorded
    /\ \E signal_type \in types, signal_code \in codes, metadata \in metas,
          weight \in RangeInputs :
        run_ctx' =
            IF weight = "out_of_range" THEN run_ctx
            ELSE [run_ctx EXCEPT !._quality_signals = Append(@,
                     [signal_type |-> signal_type, signal_code |-> signal_code,
                      metadata |-> _validate_phase2_metadata(metadata)])]
    /\ UNCHANGED <<bvars, ivars, pvars, dvars>>

\* RunContext.__exit__: the telemetry payload handed to _send_telemetry
ExitRun ==
    /\ run_ctx.payload = <<>>
    /\ run_ctx' = [run_ctx EXCEPT !.payload =
           <<[steps |-> run_ctx._steps,
              decisions |-> run_ctx._decisions,
              quality_signals |-> run_ctx._quality_signals]>>]
    /\ UNCHANGED <<bvars, ivars, pvars, dvars>>

\* ------------------------------------------------- behavior profiles

NoCall == [outcome |-> "none", args |-> <<>>, result |-> <<>>]

Times == 0..MaxTime

\* a run stored earlier: one decision and one quality signal per entry of
\* decisions and signals (their selected option / signal code)
StoredRun(i, agent, started_at, ended_at) ==
    [run_id |-> "s" \o ToString(i), agent |-> agent, started_at |-> started_at,
     ended_at |-> ended_at, status |-> "success", by |-> "earlier"]

\* the decision and the quality signal stored with run i
StoredDecision(i, selected) ==
    [run_id |-> "s" \o ToString(i), by |-> "earlier", idx |-> 1,
     decision_type |-> "tool_selection", selected |-> selected,
     reason_code |-> "fresh_data_required", decision_metadata |-> {}]

StoredSignal(i, signal_code) ==
    [run_id |-> "s" \o ToString(i), by |-> "earlier", idx |-> 1,
     signal_type |-> "schema_valid", signal_code |-> signal_code,
     signal_metadata |-> {}]

\* the filter of every query of the builder
InWindow(run, agent, window_start, window_end) ==
    /\ run.agent = agent
    /\ run.started_at >= window_start
    /\ run.started_at < window_end

\* mutation of _count_runs: the window end is included
_count_runs_closed_window(agent, window_start, window_end) ==
    Cardinality({run \in agent_runs :
        /\ run.agent = agent
        /\ run.started_at >= window_start
        /\ run.started_at <= window_end})

\* BehaviorProfileBuilder._count_runs
_count_runs(agent, window_start, window_end) ==
    Cardinality({run \in agent_runs : InWindow(run, agent, window_start, window_end)})

\* .join(AgentRunDB, ...run_id == AgentRunDB.run_id).filter(...)
JoinedInWindow(rows, agent, window_start, window_end) ==
    {d \in rows : \E run \in agent_runs :
        run.run_id = d.run_id /\ InWindow(run, agent, window_start, window_end)}

\* _compute_decision_distributions: per decision_type, per selected option,
\* the probability count / total as <<count, total>>
_compute_decision_distributions(agent, window_start, window_end) ==
    LET results == JoinedInWindow(agent_decisions, agent, window_start, window_end)
    IN [t \in {d.decision_type : d \in results} |->
          LET of_t == {d \in results : d.decision_type = t}
          IN [o \in {d.selected : d \in of_t} |->
                <<Cardinality({d \in of_t : d.selected = o}), Cardinality(of_t)>>]]

\* _compute_signal_distributions
_compute_signal_distributions(agent, window_start, window_end) ==
    LET results ==
            JoinedInWindow(agent_quality_signals, agent, window_start, window_end)
    IN [t \in {g.signal_type : g \in results} |->
          LET of_t == {g \in results : g.signal_type = t}
          IN [o \in {g.signal_code : g \in of_t} |->
                <<Cardinality({g \in of_t : g.signal_code = o}), Cardinality(of_t)>>]]

\* the rows of a query as a list, in the order the database returns them
RECURSIVE Listed(_)
Listed(rows) ==
    IF rows = {} THEN <<>>
    ELSE LET row == CHOOSE row \in rows : TRUE
         IN <<row>> \o Listed(rows \ {row})

RECURSIVE sum(_)
sum(s) == IF s = <<>> THEN 0 ELSE Head(s) + sum(Tail(s))

\* round(a / b, 2) in hundredths, ties to even, for a >= 0 and b > 0
round2(a, b) ==
    LET q == (a * 100) \div b
        twice == 2 * ((a * 100) % b)
    IN IF twice > b \/ (twice = b /\ q % 2 = 1) THEN q + 1 ELSE q

\* _query_run_durations: milliseconds of the completed runs in the window,
\* [... for d in runs if d.duration_seconds]
_query_run_durations(agent, window_start, window_end) ==
    LET runs == Listed({run \in agent_runs :
                    /\ InWindow(run, agent, window_start, window_end)
                    /\ run.ended_at # <<>>})
        ms == [i \in DOMAIN runs |-> (runs[i].ended_at[1] - runs[i].started_at) * 1000]
    IN SelectSeq(ms, LAMBDA d : d # 0)

\* _calculate_percentiles, values in hundredths of a millisecond
_calculate_percentiles(sorted_durations) ==
    LET n == Len(sorted_durations)
    IN [mean_run_duration_ms |-> round2(sum(sorted_durations), n),
        p50_run_duration_ms |-> sorted_durations[(n * 50) \div 100 + 1] * 100,
        p95_run_duration_ms |->
            (IF n > 1 THEN sorted_durations[(n * 95) \div 100 + 1]
             ELSE sorted_durations[1]) * 100,
        p99_run_duration_ms |->
            (IF n > 1 THEN sorted_durations[(n * 99) \div 100 + 1]
             ELSE sorted_durations[1]) * 100,
        sample_count |-> n]

\* _compute_latency_stats
_compute_latency_stats(agent, window_start, window_end) ==
    LET durations_ms == _query_run_durations(agent, window_start, window_end)
    IN IF durations_ms = <<>>
       THEN [mean_run_duration_ms |-> 0, p50_run_duration_ms |-> 0,
             p95_run_duration_ms |-> 0, p99_run_duration_ms |-> 0,
             sample_count |-> 0]
       ELSE _calculate_percentiles(sorted(durations_ms))

\* BehaviorProfileBuilder.build_profile: <<>> when _validate_sample_size
\* raises InsufficientDataError, else <<the profile>>
build_profile(agent, window_start, window_end, min_sample_size) ==
    LET sample_size == _count_runs(agent, window_start, window_end)
    IN IF sample_size < min_sample_size THEN <<>>
       ELSE <<[agent |-> agent, window_start |-> window_start,
               window_end |-> window_end, sample_size |-> sample_size,
               decision_distributions |->
                   _compute_decision_distributions(agent, window_start, window_end),
               signal_distributions |->
                   _compute_signal_distributions(agent, window_start, window_end),
               latency_stats |->
                   _compute_latency_stats(agent, window_start, window_end)]>>

\* create_behavior_profile(db, ...), one call
BuildProfile ==
    /\ profile_call = NoCall
    /\ \E agent \in Keys, window_start \in Times, window_end \in 0..(MaxTime + 1),
          min_sample_size \in 0..(MaxRuns + 1) :
        LET result == build_profile(agent, window_start, window_end, min_sample_size)
        IN profile_call' =
              [outcome |-> IF result = <<>> THEN "InsufficientDataError"
                           ELSE "profile",
               args |-> <<[agent |-> agent, window_start |-> window_start,
                           window_end |-> window_end,
                           min_sample_size |-> min_sample_size]>>,
               result |-> result]
    /\ UNCHANGED <<bvars, ivars, svars, dvars>>

\* ----------------------------------------------------- drift detection

\* a probability or a percentage is a fraction <<numerator, denominator>> with
\* a positive denominator; a latency is in hundredths of a millisecond and a
\* p-value in thousandths
Get(dist, option) == IF option \in DOMAIN dist THEN dist[option] ELSE <<0, 1>>

Minus(a, b) == <<a[1] * b[2] - b[1] * a[2], a[2] * b[2]>>

abs(q) == IF q[1] < 0 THEN <<0 - q[1], q[2]>> ELSE q

\* q < k and q <= k for a whole number k
Below(q, k) == q[1] < k * q[2]
AtMost(q, k) == q[1] <= k * q[2]

\* (delta / baseline_value * 100)
Percent(delta, baseline_value) ==
    <<delta[1] * baseline_value[2] * 100, delta[2] * baseline_value[1]>>

\* the enumerations a for loop over a set may make
Orders(S) ==
    {f \in [1..Cardinality(S) -> S] : \A i, j \in DOMAIN f : f[i] = f[j] => i = j}

RECURSIVE Flatten(_)
Flatten(lists) == IF lists = <<>> THEN <<>> ELSE Head(lists) \o Flatten(Tail(lists))

\* _load_thresholds: the default configuration
threshold_config ==
    [decision |-> [p_value_threshold |-> 50, min_delta_percent |-> 10],
     signal   |-> [p_value_threshold |-> 50, min_delta_percent |-> 15],
     latency  |-> [p_value_threshold |-> 50, min_delta_percent |-> 20],
     severity_thresholds |-> [low |-> 15, medium |-> 30]]

\* mutation of _is_significant: the magnitude test is strict
_is_significant_strict(p_value, delta_percent, drift_type) ==
    LET config == threshold_config[drift_type]
    IN IF p_value < 1000 /\ p_value > config.p_value_threshold THEN FALSE
       ELSE IF AtMost(delta_percent, config.min_delta_percent) THEN FALSE
       ELSE TRUE

\* DriftDetectionEngine._is_significant
_is_significant(p_value, delta_percent, drift_type) ==
    LET config == threshold_config[drift_type]
    IN IF p_value < 1000 /\ p_value > config.p_value_threshold THEN FALSE
       ELSE IF Below(delta_percent, config.min_delta_percent) THEN FALSE
       ELSE TRUE

\* mutation of _calculate_severity: the medium band ends below its threshold
_calculate_severity_strict(delta_percent) ==
    IF AtMost(delta_percent, threshold_config.severity_thresholds.low) THEN "low"
    ELSE IF Below(delta_percent, threshold_config.severity_thresholds.medium)
         THEN "medium"
    ELSE "high"

\* DriftDetectionEngine._calculate_severity
_calculate_severity(delta_percent) ==
    IF AtMost(delta_percent, threshold_config.severity_thresholds.low) THEN "low"
    ELSE IF AtMost(delta_percent, threshold_config.severity_thresholds.medium)
         THEN "medium"
    ELSE "high"

\* _run_chi_square_test: below two options no test is run; else the p-value
\* stats.chisquare gives, or 1.0 when it raises
_run_chi_square_test(baseline_dist, observed_dist, chisquare) ==
    IF Cardinality(DOMAIN baseline_dist \cup DOMAIN observed_dist) < 2 THEN 1000
    ELSE chisquare

\* _create_drift_record
_create_drift_record(baseline_id, baseline, drift_type, metric, baseline_value, observed_value, delta, delta_percent, p_value, test_method, severity, a, observed_sample_size) ==
    [baseline_id |-> baseline_id, agent |-> baseline.key,
     drift_type |-> drift_type, metric |-> metric,
     baseline_value |-> baseline_value, observed_value |-> observed_value,
     delta |-> delta, delta_percent |-> delta_percent,
     significance |-> p_value, test_method |-> test_method,
     severity |-> severity,
     detected_at |-> now,
     observation_window_start |-> a.observed_window_start,
     observation_window_end |-> a.observed_window_end,
     observation_sample_size |-> observed_sample_size,
     resolved_at |-> <<>>]

\* dists.get(tag, {})
GetDist(dists, tag) == IF tag \in DOMAIN dists THEN dists[tag] ELSE <<>>

\* mutation of _check_option_drift: an option the baseline lacks counts as a
\* change of 100 %
_check_option_drift_new_option(baseline_id, baseline, drift_type, tag, baseline_dist, observed_dist, p_value, a, observed_sample_size, order) ==
    LET record(option) ==
            LET baseline_value == Get(baseline_dist, option)
                observed_value == Get(observed_dist, option)
                delta == Minus(observed_value, baseline_value)
                delta_percent == IF baseline_value[1] > 0
                                 THEN Percent(delta, baseline_value)
                                 ELSE <<100, 1>>
            IN _create_drift_record(baseline_id, baseline, drift_type,
                   <<tag, option>>, baseline_value, observed_value, delta,
                   delta_percent, p_value, "chi_square",
                   _calculate_severity(abs(delta_percent)), a, observed_sample_size)
    IN SelectSeq([i \in DOMAIN order |-> record(order[i])],
                 LAMBDA e : _is_significant(p_value, abs(e.delta_percent), drift_type))

\* _check_option_drift (drift_type decision) and _check_signal_code_drift
\* (drift_type signal): the events of one tag, its options visited in order
_check_option_drift(baseline_id, baseline, drift_type, tag, baseline_dist, observed_dist, p_value, a, observed_sample_size, order) ==
    LET record(option) ==
            LET baseline_value == Get(baseline_dist, option)
                observed_value == Get(observed_dist, option)
                delta == Minus(observed_value, baseline_value)
                delta_percent == IF baseline_value[1] > 0
                                 THEN Percent(delta, baseline_value)
                                 ELSE <<0, 1>>
            IN _create_drift_record(baseline_id, baseline, drift_type,
                   <<tag, option>>, baseline_value, observed_value, delta,
                   delta_percent, p_value, "chi_square",
                   _calculate_severity(abs(delta_percent)), a, observed_sample_size)
    IN SelectSeq([i \in DOMAIN order |-> record(order[i])],
                 LAMBDA e : _is_significant(p_value, abs(e.delta_percent), drift_type))

\* what one comparison leaves open: the order in which the tags and the
\* options of each tag are visited, and the p-value of each tag's test
Visits(baseline_dists, observed_dists, p_values) ==
    LET all_types == DOMAIN baseline_dists \cup DOMAIN observed_dists
        all_options(t) == DOMAIN GetDist(baseline_dists, t)
                            \cup DOMAIN GetDist(observed_dists, t)
    IN {v \in [type_order : Orders(all_types),
               option_order : [all_types ->
                                  UNION {Orders(all_options(t)) : t \in all_types}],
               chisquare : [all_types -> p_values]] :
          \A t \in all_types : v.option_order[t] \in Orders(all_options(t))}

\* _compare_decision_distributions and _compare_signal_distributions
_compare_distributions(baseline_id, baseline, drift_type, baseline_dists, observed_dists, a, observed_sample_size, v) ==
    Flatten([i \in DOMAIN v.type_order |->
        LET t == v.type_order[i]
            baseline_dist == GetDist(baseline_dists, t)
            observed_dist == GetDist(observed_dists, t)
        IN IF DOMAIN baseline_dist = {} \/ DOMAIN observed_dist = {} THEN <<>>
           ELSE _check_option_drift(baseline_id, baseline, drift_type, t,
                    baseline_dist, observed_dist,
                    _run_chi_square_test(baseline_dist, observed_dist, v.chisquare[t]),
                    a, observed_sample_size, v.option_order[t])])

\* mutation of _check_latency_metric_drift: a metric is skipped only when
\* both values are 0
_check_latency_metric_drift_both_zero(baseline_id, baseline, metric, baseline_value, observed_value, a, observed_sample_size) ==
    IF baseline_value = 0 /\ observed_value = 0 THEN <<>>
    ELSE LET delta == <<observed_value - baseline_value, 1>>
             delta_percent == Percent(delta, <<baseline_value, 1>>)
         IN IF _is_significant(1000, abs(delta_percent), "latency")
            THEN <<_create_drift_record(baseline_id, baseline, "latency", <<metric>>,
                       <<baseline_value, 1>>, <<observed_value, 1>>, delta,
                       delta_percent, 1000, "percent_threshold",
                       _calculate_severity(abs(delta_percent)), a,
                       observed_sample_size)>>
            ELSE <<>>

\* DriftDetectionEngine._check_latency_metric_drift: <<>> for None
_check_latency_metric_drift(baseline_id, baseline, metric, baseline_value, observed_value, a, observed_sample_size) ==
    IF baseline_value = 0 \/ observed_value = 0 THEN <<>>
    ELSE LET delta == <<observed_value - baseline_value, 1>>
             delta_percent == Percent(delta, <<baseline_value, 1>>)
         IN IF _is_significant(1000, abs(delta_percent), "latency")
            THEN <<_create_drift_record(baseline_id, baseline, "latency", <<metric>>,
                       <<baseline_value, 1>>, <<observed_value, 1>>, delta,
                       delta_percent, 1000, "percent_threshold",
                       _calculate_severity(abs(delta_percent)), a,
                       observed_sample_size)>>
            ELSE <<>>

\* _compare_latency_stats
_compare_latency_stats(baseline_id, baseline, baseline_stats, observed_stats, a, observed_sample_size) ==
    _check_latency_metric_drift(baseline_id, baseline, "mean_run_duration_ms",
        baseline_stats.mean_run_duration_ms, observed_stats.mean_run_duration_ms,
        a, observed_sample_size)
    \o _check_latency_metric_drift(baseline_id, baseline, "p95_run_duration_ms",
        baseline_stats.p95_run_duration_ms, observed_stats.p95_run_duration_ms,
        a, observed_sample_size)

\* _collect_all_drifts
_collect_all_drifts(baseline_id, baseline, baseline_profile, observed_profile, a, decision_visit, signal_visit) ==
    _compare_distributions(baseline_id, baseline, "decision",
        baseline_profile.decision_distributions,
        observed_profile.decision_distributions, a, observed_profile.sample_size,
        decision_visit)
    \o _compare_distributions(baseline_id, baseline, "signal",
        baseline_profile.signal_distributions,
        observed_profile.signal_distributions, a, observed_profile.sample_size,
        signal_visit)
    \o _compare_latency_stats(baseline_id, baseline, baseline_profile.latency_stats,
        observed_profile.latency_stats, a, observed_profile.sample_size)

\* mutation of Persisted: each record is committed as it is added
PersistedOneByOne(table, records, commit) ==
    IF commit = "ok" THEN table \o records
    ELSE table \o SubSeq(records, 1, Len(records) - 1)

\* for drift in drift_records: self.db.add(drift); self.db.commit(): the rows
\* get the next drift_ids when the commit succeeds
Persisted(table, records, commit) ==
    IF commit = "ok" THEN table \o records ELSE table

\* the p-value _compare_distributions got for each tag it tested
Tested(baseline_dists, observed_dists, v) ==
    [t \in {t \in DOMAIN baseline_dists \cap DOMAIN observed_dists :
               DOMAIN baseline_dists[t] # {} /\ DOMAIN observed_dists[t] # {}} |->
        _run_chi_square_test(baseline_dists[t], observed_dists[t], v.chisquare[t])]

\* no detect_drift call yet.  Of a call: its arguments, the exception raised
\* or the list returned, the observed profile it built and the p-values of
\* its tests
NoDriftCall ==
    [outcome |-> "none", args |-> <<>>, result |-> <<>>, observed |-> <<>>,
     tests |-> <<>>]

\* datetime.utcnow() is read when each record is created: the records as
\* they are when the clock advances by one before the last `later` of them
\* are created
Stamped(records, later) ==
    [i \in DOMAIN records |->
        IF i > Len(records) - later
        THEN [records[i] EXCEPT !.detected_at = now + 1]
        ELSE records[i]]

\* DriftDetectionEngine.detect_drift, one call
DetectDrift(windows, min_sizes, p_values, advances) ==
    /\ drift_call = NoDriftCall
    /\ \E baseline_id \in DOMAIN behavior_baselines, w \in windows,
          min_sample_size \in min_sizes, commit \in {"ok", "error"} :
        LET baseline == behavior_baselines[baseline_id]
            a == [baseline_id |-> baseline_id, observed_window_start |-> w[1],
                  observed_window_end |-> w[2], min_sample_size |-> min_sample_size]
            observed == build_profile(baseline.key, w[1], w[2], min_sample_size)
            failed(error) ==
                /\ drift_call' = [NoDriftCall EXCEPT !.outcome = error,
                                                      !.args = <<a>>,
                                                      !.observed = observed]
                /\ UNCHANGED <<behavior_drift, now>>
        IN IF observed = <<>> THEN failed("InsufficientDataError")
           ELSE IF baseline.profile_id \notin DOMAIN behavior_profiles
           THEN failed("ValueError")
           ELSE LET baseline_profile == behavior_profiles[baseline.profile_id]
                IN \E decision_visit \in Visits(baseline_profile.decision_distributions,
                                          observed[1].decision_distributions, p_values),
                      signal_visit \in Visits(baseline_profile.signal_distributions,
                                        observed[1].signal_distributions, p_values) :
                   \E later \in advances :
                    LET created ==
                            _collect_all_drifts(baseline_id, baseline, baseline_profile,
                                observed[1], a, decision_visit, signal_visit)
                        drift_records == Stamped(created, later)
                    IN /\ later <= Len(created)
                       /\ later > 0 => now < MaxClock
                       /\ now' = IF later > 0 THEN now + 1 ELSE now
                       /\ behavior_drift' =
                              Persisted(behavior_drift, drift_records, commit)
                       /\ drift_call' =
                              [outcome |-> IF commit = "ok" THEN "returned"
                                           ELSE "commit_error",
                               args |-> <<a>>,
                               result |-> IF commit = "ok" THEN drift_records
                                          ELSE <<>>,
                               observed |-> observed,
                               tests |->
                                  <<[decision |->
                                        Tested(baseline_profile.decision_distributions,
                                               observed[1].decision_distributions,
                                               decision_visit),
                                     signal |->
                                        Tested(baseline_profile.signal_distributions,
                                               observed[1].signal_distributions,
                                               signal_visit)]>>]
    /\ UNCHANGED <<behavior_profiles, resolve_call, alert_call, behavior_baselines, sess>>
    /\ UNCHANGED <<ivars, svars, pvars>>

\* ---------------------------------------------------------- resolve drift

\* no POST /v1/drift/{drift_id}/resolve request of the caller in progress
NoResolve == [pc |-> "idle", drift_id |-> 0, resolved_at |-> <<>>, status |-> 0]

\* ids a request may name: the stored events and one id that is not stored
DriftIds == 1..(MaxDrifts + 1)

\* resolve_drift up to db.commit(): the query in the request's own
\* transaction, the two checks and the assignment of the timestamp
ResolveQuery(c) ==
    /\ resolve_call[c].pc \in {"idle", "done"}
    /\ \E drift_id \in DriftIds :
          resolve_call' = [resolve_call EXCEPT ![c] =
             IF drift_id \notin DOMAIN behavior_drift
             THEN [pc |-> "done", drift_id |-> drift_id, resolved_at |-> <<>>,
                   status |-> 404]
             ELSE IF behavior_drift[drift_id].resolved_at # <<>>
             THEN [pc |-> "done", drift_id |-> drift_id, resolved_at |-> <<>>,
                   status |-> 400]
             ELSE [pc |-> "commit", drift_id |-> drift_id, resolved_at |-> <<now>>,
                   status |-> 0]]
    /\ UNCHANGED <<behavior_profiles, behavior_drift, drift_call, alert_call>>
    /\ UNCHANGED <<bvars, ivars, svars, pvars>>

\* db.commit(): the UPDATE of resolved_at is written and committed
ResolveCommit(c) ==
    /\ resolve_call[c].pc = "commit"
    /\ behavior_drift' = [behavior_drift EXCEPT
          ![resolve_call[c].drift_id].resolved_at = resolve_call[c].resolved_at]
    /\ resolve_call' = [resolve_call EXCEPT ![c].pc = "done", ![c].status = 200]
    /\ UNCHANGED <<behavior_profiles, drift_call, alert_call>>
    /\ UNCHANGED <<bvars, ivars, svars, pvars>>

\* ------------------------------------------------------------- alerts

\* no emit call yet
NoEmit ==
    [outcome |-> "none", config |-> <<>>, responses |-> <<>>,
     log |-> <<>>, calls |-> <<>>, posts |-> <<>>]

\* mutation of the senders: a failed delivery is not caught
_send_webhook_uncaught(sink, destination, response) ==
    IF ~destination
    THEN [raised |-> FALSE, log |-> <<<<"debug", sink>>>>, posts |-> <<>>]
    ELSE IF response = "ok"
    THEN [raised |-> FALSE, log |-> <<<<"info", sink>>>>, posts |-> <<sink>>]
    ELSE [raised |-> TRUE, log |-> <<>>, posts |-> <<sink>>]

\* _send_slack_webhook, _send_pagerduty_alert, _send_generic_webhook: nothing
\* is posted when the webhook URL / routing key is not configured; else one
\* requests.post(..., timeout=10) and raise_for_status(), any Exception of
\* which is logged as an error and not raised
_send_webhook(sink, destination, response) ==
    IF ~destination
    THEN [raised |-> FALSE, log |-> <<<<"debug", sink>>>>, posts |-> <<>>]
    ELSE IF response = "ok"
    THEN [raised |-> FALSE, log |-> <<<<"info", sink>>>>, posts |-> <<sink>>]
    ELSE [raised |-> FALSE, log |-> <<<<"error", sink>>>>, posts |-> <<sink>>]

\* AlertEmitter.emit(drift), one call: the configuration that
\* _load_webhook_config read (per sink: enabled, and whether its URL / routing
\* key is set) and the response each sink would give to a post; an exception
\* raised by a sender ends emit
Emit ==
    /\ alert_call = NoEmit
    /\ \E config \in [{"slack", "pagerduty", "webhook"} ->
                          [enabled : BOOLEAN, destination : BOOLEAN]],
          responses \in [{"slack", "pagerduty", "webhook"} ->
                             {"ok", "http_error", "timeout"}] :
        LET logged == [raised |-> FALSE, log |-> <<<<"warning", "DRIFT_DETECTED">>>>,
                       calls |-> <<>>, posts |-> <<>>]
            send(r, sink) ==
                IF r.raised \/ ~config[sink].enabled THEN r
                ELSE LET sent == _send_webhook(sink, config[sink].destination,
                                               responses[sink])
                     IN [raised |-> sent.raised, log |-> r.log \o sent.log,
                         calls |-> Append(r.calls, sink),
                         posts |-> r.posts \o sent.posts]
            r == send(send(send(logged, "slack"), "pagerduty"), "webhook")
        IN alert_call' =
              [outcome |-> IF r.raised THEN "raised" ELSE "returned",
               config |-> <<config>>, responses |-> <<responses>>,
               log |-> r.log, calls |-> r.calls, posts |-> r.posts]
    /\ UNCHANGED <<behavior_profiles, behavior_drift, drift_call, resolve_call>>
    /\ UNCHANGED <<bvars, ivars, svars, pvars>>

\* ------------------------------------------------------- specifications

Init ==
    /\ behavior_baselines = <<>>
    /\ sess = [c \in Callers |-> IdleSession]
    /\ now = 0
    /\ agent_runs = {} /\ agent_steps = {} /\ agent_failures = {}
    /\ agent_decisions = {} /\ agent_quality_signals = {}
    /\ req = [r \in Requests |-> IdleRequest]
    /\ run_ctx = NewRunContext
    /\ profile_call = NoCall
    /\ behavior_profiles = <<>> /\ behavior_drift = <<>>
    /\ drift_call = NoDriftCall
    /\ resolve_call = [c \in Callers |-> NoResolve]
    /\ alert_call = NoEmit

\* calls issued one at a time: one caller, each call in a fresh session
NextSerial ==
    \/ CreateBaseline("c1", ProfileIds, Users \cup {None}, {"version"}, {<<>>})
    \/ ActivateBaseline("c1")
    \/ GetActiveBaseline("c1")
    \/ DeactivateBaseline("c1")
    \/ ApproveBaseline("c1")
    \/ Commit("c1")
    \/ Tick

SpecSerial == Init /\ [][NextSerial]_vars

\* calls of two callers interleaved, each in its own read-committed transaction
\* (baselines of one profile, created unapproved)
NextBaseline ==
    \/ \E c \in Callers : CreateBaseline(c, {"p1"}, {None}, {"version"}, {<<>>})
    \/ \E c \in Callers : ActivateBaseline(c)
    \/ \E c \in Callers : GetActiveBaseline(c)
    \/ \E c \in Callers : DeactivateBaseline(c)
    \/ \E c \in Callers : Commit(c)

SpecBaseline == Init /\ [][NextBaseline]_vars

Spec == SpecBaseline

\* two requests handled one after the other or interleaved, each in its own
\* session; bodies that pass or fail validation, with at most one step
NextIngest ==
    \/ \E r \in Requests : Receive(r, Payloads({<<>>, <<0>>}))
    \/ \E r \in Requests : CheckDuplicate(r)
    \/ \E r \in Requests : CreateRun(r)
    \/ \E r \in Requests : CreateSteps(r)
    \/ \E r \in Requests : CommitRun(r)

SpecIngest == Init /\ [][NextIngest]_vars

\* one request, any body with up to MaxSteps steps
NextValidate ==
    \/ Receive("q1", Payloads(StepLists(MaxSteps)))
    \/ CheckDuplicate("q1")
    \/ CreateRun("q1")
    \/ CreateSteps("q1")
    \/ CommitRun("q1")

SpecValidate == Init /\ [][NextValidate]_vars

\* bodies of one run with one step, one decision and one quality signal
FullBodies(stepMetas, decisionItems, signalItems) ==
    {p \in Bodies({<<0>>}, stepMetas, decisionItems, signalItems) :
        /\ p.run_id = "r1" /\ p.status = "success" /\ p.failure = "omitted"
        /\ p.decisions = 1 /\ p.quality_signals = 1}

\* one request whose step, decision and signal carry any metadata object
NextPrivacy ==
    \/ Receive("q1", FullBodies(MetadataObjects,
                   DecisionItems({"tool_selection"}, {"fresh_data_required"},
                                 MetadataObjects),
                   SignalItems({"schema_valid"}, {"full_match"}, MetadataObjects)))
    \/ CheckDuplicate("q1")
    \/ CreateRun("q1")
    \/ CreateSteps("q1")
    \/ CommitRun("q1")

SpecPrivacy == Init /\ [][NextPrivacy]_vars

\* one request whose decision and signal carry metadata values of any kind,
\* the decision with or without candidates
NextMetadata ==
    \/ Receive("q1", FullBodies({{}},
                   DecisionItems({"tool_selection"}, {"fresh_data_required"},
                                 MetadataValues),
                   SignalItems({"schema_valid"}, {"full_match"}, MetadataValues)))
    \/ CheckDuplicate("q1")
    \/ CreateRun("q1")
    \/ CreateSteps("q1")
    \/ CommitRun("q1")

SpecMetadata == Init /\ [][NextMetadata]_vars

\* one request whose decision and signal carry any tags, and one SDK run
\* recording decisions and signals with any tags
NextCatalog ==
    \/ Receive("q1", FullBodies({{}},
                   {d \in DecisionItems(DecisionTypeInputs, ReasonCodeInputs, {{}}) :
                        ~d.candidates},
                   SignalItems(SignalTypeInputs, SignalCodeInputs, {{}})))
    \/ CheckDuplicate("q1")
    \/ CreateRun("q1")
    \/ CreateSteps("q1")
    \/ CommitRun("q1")
    \/ RecordDecision({"tool_selection", "mood"}, {"fresh_data_required", "because"},
                      {{}, {<<"reasoning", "str">>}})
    \/ RecordQualitySignal({"schema_valid", "vibe"}, {"full_match", "fine"}, {{}})
    \/ ExitRun

SpecCatalog == Init /\ [][NextCatalog]_vars

\* one SDK run creating, entering and exiting step contexts
NextSteps ==
    \/ Step
    \/ EnterStep
    \/ ExitStep
    \/ ExitRun

SpecSteps == Init /\ [][NextSteps]_vars

\* up to MaxRuns runs stored earlier, of any key and start time, each one
\* second long
InitProfile ==
    /\ behavior_baselines = <<>>
    /\ sess = [c \in Callers |-> IdleSession]
    /\ now = 0
    /\ \E n \in 0..MaxRuns :
         \E agent \in [1..n -> Keys], started_at \in [1..n -> Times] :
            agent_runs = {StoredRun(i, agent[i], started_at[i], <<started_at[i] + 1>>) :
                             i \in 1..n}
    /\ agent_steps = {} /\ agent_failures = {}
    /\ agent_decisions = {} /\ agent_quality_signals = {}
    /\ req = [r \in Requests |-> IdleRequest]
    /\ run_ctx = NewRunContext
    /\ profile_call = NoCall
    /\ behavior_profiles = <<>> /\ behavior_drift = <<>>
    /\ drift_call = NoDriftCall
    /\ resolve_call = [c \in Callers |-> NoResolve]
    /\ alert_call = NoEmit

NextProfile == BuildProfile

SpecProfile == InitProfile /\ [][NextProfile]_vars

\* up to MaxRuns runs of key k1 stored earlier, started at time 1, each one
\* still running (no ended_at), ended at once, or one second long
InitLatency ==
    /\ behavior_baselines = <<>>
    /\ sess = [c \in Callers |-> IdleSession]
    /\ now = 0
    /\ \E n \in 0..MaxRuns :
         \E ended_at \in [1..n -> {<<>>, <<1>>, <<2>>}] :
            agent_runs = {StoredRun(i, "k1", 1, ended_at[i]) : i \in 1..n}
    /\ agent_steps = {} /\ agent_failures = {}
    /\ agent_decisions = {} /\ agent_quality_signals = {}
    /\ req = [r \in Requests |-> IdleRequest]
    /\ run_ctx = NewRunContext
    /\ profile_call = NoCall
    /\ behavior_profiles = <<>> /\ behavior_drift = <<>>
    /\ drift_call = NoDriftCall
    /\ resolve_call = [c \in Callers |-> NoResolve]
    /\ alert_call = NoEmit

SpecLatency == InitLatency /\ [][NextProfile]_vars

\* profiles a baseline may reference
BaselineProfiles ==
    [agent : {"k1"}, window_start : {0}, window_end : {1}, sample_size : {100},
     decision_distributions :
        {[tool_selection |-> [call_api |-> <<5, 11>>, use_cache |-> <<6, 11>>]],
         [tool_selection |-> [call_api |-> <<5, 13>>, use_cache |-> <<8, 13>>]],
         [tool_selection |-> [call_api |-> <<1, 1>>]]},
     signal_distributions :
        {[schema_valid |-> [full_match |-> <<10, 23>>, partial_match |-> <<13, 23>>]],
         [schema_valid |-> [full_match |-> <<5, 13>>, partial_match |-> <<8, 13>>]],
         [schema_valid |-> [full_match |-> <<1, 1>>]]},
     latency_stats :
        {[mean_run_duration_ms |-> 125000, p50_run_duration_ms |-> 125000,
          p95_run_duration_ms |-> 0, p99_run_duration_ms |-> 0,
          sample_count |-> 100],
         [mean_run_duration_ms |-> 137000, p50_run_duration_ms |-> 100000,
          p95_run_duration_ms |-> 100000, p99_run_duration_ms |-> 100000,
          sample_count |-> 100]}]

\* one baseline of key k1 whose profile p1 is stored (or is gone), and up to
\* MaxObserved runs of k1 started at time 1, one or two seconds long, each
\* with one decision and one quality signal
InitDrift ==
    /\ behavior_baselines = <<NewBaseline("p1", "k1", None, 0)>>
    /\ sess = [c \in Callers |-> IdleSession]
    /\ now = 0
    /\ \E n \in 0..MaxObserved :
         \E ended_at \in [1..n -> {2, 3}],
            selected \in [1..n -> {"call_api", "use_cache"}],
            signal_code \in [1..n -> {"full_match", "partial_match"}] :
            /\ agent_runs = {StoredRun(i, "k1", 1, <<ended_at[i]>>) : i \in 1..n}
            /\ agent_decisions = {StoredDecision(i, selected[i]) : i \in 1..n}
            /\ agent_quality_signals = {StoredSignal(i, signal_code[i]) : i \in 1..n}
    /\ agent_steps = {} /\ agent_failures = {}
    /\ req = [r \in Requests |-> IdleRequest]
    /\ run_ctx = NewRunContext
    /\ profile_call = NoCall
    /\ behavior_profiles \in {<<>>} \cup {[p1 |-> profile] : profile \in BaselineProfiles}
    /\ behavior_drift = <<>>
    /\ drift_call = NoDriftCall
    /\ resolve_call = [c \in Callers |-> NoResolve]
    /\ alert_call = NoEmit

NextDrift == DetectDrift({<<1, 2>>}, {0, 2}, {50, 51, 1000}, {0})

SpecDrift == InitDrift /\ [][NextDrift]_vars

\* a drift event stored earlier by detect_drift
StoredDrift ==
    _create_drift_record(1, NewBaseline("p1", "k1", None, 0), "latency",
        <<"mean_run_duration_ms">>, <<125000, 1>>, <<200000, 1>>, <<75000, 1>>,
        <<60, 1>>, 1000, "percent_threshold", "high",
        [baseline_id |-> 1, min_sample_size |-> 0, observed_window_start |-> 1,
         observed_window_end |-> 2], 2)

\* up to MaxDrifts unresolved drift events stored earlier
InitResolve ==
    /\ behavior_baselines = <<NewBaseline("p1", "k1", None, 0)>>
    /\ sess = [c \in Callers |-> IdleSession]
    /\ now = 0
    /\ agent_runs = {} /\ agent_steps = {} /\ agent_failures = {}
    /\ agent_decisions = {} /\ agent_quality_signals = {}
    /\ req = [r \in Requests |-> IdleRequest]
    /\ run_ctx = NewRunContext
    /\ profile_call = NoCall
    /\ behavior_profiles = <<>>
    /\ \E n \in 1..MaxDrifts : behavior_drift = [i \in 1..n |-> StoredDrift]
    /\ drift_call = NoDriftCall
    /\ resolve_call = [c \in Callers |-> NoResolve]
    /\ alert_call = NoEmit

\* resolve requests of two callers interleaved, each in its own
\* read-committed transaction
NextResolve ==
    \/ \E c \in Callers : ResolveQuery(c)
    \/ \E c \in Callers : ResolveCommit(c)
    \/ Tick

\* one emit call, with any sink configuration and any response of the sinks
SpecAlert == Init /\ [][Emit]_vars

SpecResolve == InitResolve /\ [][NextResolve]_vars

\* baseline types and descriptions create_baseline is called with: no
\* description, "Text", "context", and x repeated MaxDescription and
\* MaxDescription + 1 times
BaselineTypeInputs == {"version", "time_window", "manual", "invalid_type"}
DescriptionInputs ==
    {<<>>, <<<<"T", "e", "x", "t">>>>, <<<<"c", "o", "n", "t", "e", "x", "t">>>>,
     <<[i \in 1..MaxDescription |-> "x"]>>,
     <<[i \in 1..(MaxDescription + 1) |-> "x"]>>}

\* create_baseline calls with any of these inputs, one at a time
NextCreate ==
    \/ CreateBaseline("c1", {"p1"}, {None}, BaselineTypeInputs, DescriptionInputs)
    \/ GetActiveBaseline("c1")
    \/ Commit("c1")

SpecCreate == Init /\ [][NextCreate]_vars

\* baselines created unapproved and approve_baseline calls, one at a time,
\* while the clock advances
NextApprove ==
    \/ CreateBaseline("c1", {"p1"}, {None}, {"version"}, {<<>>})
    \/ GetActiveBaseline("c1")
    \/ ApproveBaseline("c1")
    \/ Commit("c1")
    \/ Tick

SpecApprove == Init /\ [][NextApprove]_vars

\* detect_drift calls during which the clock may advance, with no
\* statistical test attempted
NextDriftClock == DetectDrift({<<1, 2>>}, {0}, {1000}, 0..MaxLater)

SpecDriftClock == InitDrift /\ [][NextDriftClock]_vars

\* ------------------------------------------------------------ properties

Stored(b) == b \in DOMAIN behavior_baselines

FinishedOk(c, op) == sess[c].pc = "done" /\ sess[c].op = op /\ sess[c].ok

\* C1: with calls issued one at a time, every key has at most one stored
\* baseline with is_active = TRUE.
C1_AtMostOneActivePerKey ==
    \A k \in Keys : Cardinality(get_active_baseline(behavior_baselines, k)) <= 1

\* a second baseline of a key was activated or auto-activated over the first
C1_Witness ==
    \E c \in Callers :
        /\ sess[c].pc = "done" /\ sess[c].ok /\ sess[c].swapped # 0
        /\ sess[c].op \in {"create", "activate"}
        /\ behavior_baselines[sess[c].target].is_active
        /\ behavior_baselines[sess[c].target].key
             = behavior_baselines[sess[c].swapped].key

\* C2 (as claimed): once two activate_baseline calls of two callers for two
\* different baselines of one key have both finished, exactly one of the two
\* baselines is active.
C2_ExactlyOneActiveAfterConcurrentActivate ==
    \A c, d \in Callers :
        ( /\ c # d
          /\ FinishedOk(c, "activate") /\ FinishedOk(d, "activate")
          /\ sess[c].target # sess[d].target
          /\ behavior_baselines[sess[c].target].key
               = behavior_baselines[sess[d].target].key )
        => ( behavior_baselines[sess[c].target].is_active
               # behavior_baselines[sess[d].target].is_active )

\* C3: with calls issued one at a time, after activate_baseline(B2) returns,
\* get_active_baseline of B2's key can only return B2: B2 is active and every
\* other baseline of the key, a previously activated B1 included, is inactive.
C3_ActivateReplacesActive ==
    \A c \in Callers :
        FinishedOk(c, "activate") =>
            /\ get_active_baseline(behavior_baselines,
                   behavior_baselines[sess[c].target].key) = {sess[c].target}
            /\ sess[c].swapped # 0 => ~behavior_baselines[sess[c].swapped].is_active

\* activate_baseline(B2) has returned and turned an active B1 off
C3_Witness ==
    \E c \in Callers :
        /\ FinishedOk(c, "activate")
        /\ sess[c].swapped # 0
        /\ ~sess[c].wasActive
        /\ behavior_baselines[sess[c].target].is_active
        /\ ~behavior_baselines[sess[c].swapped].is_active

\* C4: with calls issued one at a time, activate_baseline(b) on an already
\* active b commits without error and changes no stored baseline's is_active.
C4_ActivateIdempotent ==
    [][\A c \in Callers :
          ( /\ sess[c].op = "activate" /\ sess[c].wasActive
            /\ sess[c].pc = "commit" /\ sess'[c].pc = "done" )
          => /\ sess'[c].ok
             /\ DOMAIN behavior_baselines' = DOMAIN behavior_baselines
             /\ \A b \in DOMAIN behavior_baselines :
                    behavior_baselines'[b].is_active = behavior_baselines[b].is_active
      ]_vars

\* activate_baseline(b) has returned for a b that was active when called,
\* while a baseline of another key is active too
C4_Witness ==
    \E c \in Callers :
        /\ FinishedOk(c, "activate") /\ sess[c].wasActive
        /\ behavior_baselines[sess[c].target].is_active
        /\ \E b \in DOMAIN behavior_baselines :
              /\ behavior_baselines[b].is_active
              /\ behavior_baselines[b].key # behavior_baselines[sess[c].target].key

\* C5: a baseline becomes visible to other transactions (committed) with
\* is_active = FALSE when created without auto_activate, and with
\* is_active = TRUE, in the same commit that turns the key's previously
\* active baseline off, when created with auto_activate.
C5_CreateCommitsActivationTogether ==
    [][\A b \in BaselineIds :
          (~Stored(b) /\ b \in DOMAIN behavior_baselines')
          => \E c \in Callers :
                /\ sess[c].op = "create" /\ sess[c].target = b
                /\ behavior_baselines'[b].is_active = sess[c].auto
                /\ sess[c].swapped # 0 =>
                      ~behavior_baselines'[sess[c].swapped].is_active
      ]_vars

\* create_baseline(auto_activate = TRUE) has committed over an active baseline
C5_Witness ==
    \E c \in Callers :
        /\ FinishedOk(c, "create") /\ sess[c].auto /\ sess[c].swapped # 0
        /\ behavior_baselines[sess[c].target].is_active
        /\ ~behavior_baselines[sess[c].swapped].is_active

Finished(r) == req[r].pc = "done"

\* the committed rows request r wrote
RowsBy(r) ==
    {row \in agent_runs \cup agent_steps \cup agent_failures
               \cup agent_decisions \cup agent_quality_signals : row.by = r}

StoredRuns(id) == {row \in agent_runs : row.run_id = id}

StoredChildren(id) ==
    {row \in agent_steps \cup agent_failures \cup agent_decisions
               \cup agent_quality_signals : row.run_id = id}

\* the stored run and children of run_id id are what the body of request r held
StoredIsBodyOf(id, r) ==
    LET p == req[r].payload
    IN /\ \A row \in StoredRuns(id) : row.by = r /\ row.status = p.status
       /\ \A row \in StoredChildren(id) : row.by = r
       /\ {<<s.idx, s.seq>> : s \in {x \in agent_steps : x.run_id = id}}
             = {<<i, p.steps[i]>> : i \in 1..Len(p.steps)}
       /\ Cardinality({f \in agent_failures : f.run_id = id})
             = (IF p.failure = "object" THEN 1 ELSE 0)
       /\ Cardinality({d \in agent_decisions : d.run_id = id}) = p.decisions
       /\ Cardinality({q \in agent_quality_signals : q.run_id = id})
             = p.quality_signals

C6_StoredOnce ==
    \A id \in RunIds :
        /\ Cardinality(StoredRuns(id)) <= 1
        /\ StoredRuns(id) = {} => StoredChildren(id) = {}
        /\ \A row \in StoredRuns(id) : StoredIsBodyOf(id, row.by)
        /\ \A r \in Requests :
              ( /\ Finished(r) /\ req[r].payload.run_id = id
                /\ req[r].outcome \in {"created", "duplicate", "conflict"} )
              => Cardinality(StoredRuns(id)) = 1

\* C6: for requests carrying the same run_id, handled in sequence or
\* interleaved, at most one run with that run_id is ever stored, exactly one
\* once a request for it was answered created, duplicate or conflict; its
\* fields and children are those of the request that committed it, and once
\* stored they never change.
C6_IdempotentByRunId ==
    [][/\ C6_StoredOnce'
       /\ \A id \in RunIds :
             StoredRuns(id) # {} =>
                /\ StoredRuns(id)' = StoredRuns(id)
                /\ StoredChildren(id)' = StoredChildren(id)
      ]_vars

\* two interleaved requests carried one run_id with different bodies: one
\* was committed, the other hit the primary key
C6_Witness ==
    \E r, o \in Requests :
        /\ Finished(r) /\ Finished(o)
        /\ req[r].payload.run_id = req[o].payload.run_id
        /\ req[r].payload.status # req[o].payload.status
        /\ req[r].outcome = "created" /\ req[o].outcome = "conflict"
        /\ \E row \in agent_runs :
              /\ StoredRuns(req[r].payload.run_id) = {row}
              /\ row.status = req[r].payload.status /\ row.by = r

\* C7 (as claimed): POST /v1/runs answers 201 when it stores a new run and
\* 200, with the stored record as body, when the run_id is already stored.
C7_CreatedIs201DuplicateIs200 ==
    \A r \in Requests :
        Finished(r) =>
            /\ req[r].outcome = "created" => req[r].status_code = "201"
            /\ req[r].outcome = "duplicate" =>
                  /\ req[r].status_code = "200"
                  /\ req[r].body \in StoredRuns(req[r].payload.run_id)

\* C8: when a write of ingest_run fails (flush of the run, flush of the
\* steps, or the final flush and commit of failure, decisions and signals),
\* nothing the request wrote is stored; and no row of a request is readable
\* by others before the request has committed.
C8_RollbackLeavesNothing ==
    \A r \in Requests :
        /\ ( Finished(r) /\ req[r].outcome \in {"conflict", "integrity", "error"} )
              => RowsBy(r) = {}
        /\ ~Finished(r) => RowsBy(r) = {}

\* a request with steps, a failure, a decision and a signal failed at the
\* final commit, after its run and steps had been flushed
C8_Witness ==
    \E r \in Requests :
        /\ Finished(r) /\ req[r].outcome \in {"integrity", "error"}
        /\ req[r].failed_at = "commit"
        /\ req[r].payload.steps # <<>> /\ req[r].payload.failure = "object"
        /\ req[r].payload.decisions > 0 /\ req[r].payload.quality_signals > 0
        /\ RowsBy(r) = {}

\* the seq values are exactly the set 0..N-1 for the N steps of the list
SeqsAreZeroToN(steps) ==
    {steps[i] : i \in 1..Len(steps)} = 0..(Len(steps) - 1)

\* C9: every stored run has step seq values that are exactly 0..N-1 for its
\* N steps; a body whose seq values are not such a set is rejected and
\* nothing of it is stored; an empty step list is accepted.
C9_StepSequence ==
    /\ \A row \in agent_runs :
          LET st == {s \in agent_steps : s.run_id = row.run_id}
          IN {s.seq : s \in st} = 0..(Cardinality(st) - 1)
    /\ \A r \in Requests :
          Finished(r) =>
             /\ ~SeqsAreZeroToN(req[r].payload.steps) =>
                    req[r].outcome = "rejected" /\ RowsBy(r) = {}
             /\ ( /\ req[r].payload.steps = <<>>
                  /\ (req[r].payload.status # "failure"
                        \/ req[r].payload.failure = "object") )
                  => req[r].outcome # "rejected"

\* a body whose steps arrive as seq 1, 0 was stored with both steps
C9_Witness ==
    \E r \in Requests :
        /\ Finished(r) /\ req[r].outcome = "created"
        /\ req[r].payload.steps = <<1, 0>>
        /\ Cardinality({s \in agent_steps : s.by = r}) = 2

\* C10 (as claimed): every stored run with status failure has a failure
\* record; a body with status failure and no failure object, the member
\* omitted or null, is never accepted and nothing of it is stored.
C10_FailedRunsHaveFailure ==
    /\ \A row \in agent_runs :
          row.status = "failure" =>
             \E f \in agent_failures : f.run_id = row.run_id
    /\ \A r \in Requests :
          ( /\ Finished(r) /\ req[r].payload.status = "failure"
            /\ req[r].payload.failure \in {"omitted", "null"} )
          => req[r].outcome # "created" /\ RowsBy(r) = {}

\* the top-level metadata keys stored for request r, lower-cased
StoredMetadataKeys(r) ==
    {lower(item[1]) : item \in
        UNION ({s.step_metadata : s \in {x \in agent_steps : x.by = r}}
               \cup {d.decision_metadata : d \in {x \in agent_decisions : x.by = r}}
               \cup {g.signal_metadata :
                        g \in {x \in agent_quality_signals : x.by = r}})}

PrivateKeys ==
    {"prompt", "response", "reasoning", "thought", "message", "content", "text",
     "output", "input", "chain_of_thought", "explanation", "rationale"}

\* C11 (as claimed): no stored step, decision or quality-signal metadata has a
\* top-level key that lower-cased is one of the twelve private keys, and a
\* body holding such a key in any of these metadata objects is rejected with
\* nothing stored.
C11_NoPrivateMetadataKeys ==
    \A r \in Requests :
        /\ StoredMetadataKeys(r) \cap PrivateKeys = {}
        /\ ( /\ Finished(r)
             /\ \E item \in req[r].payload.step_metadata
                             \cup req[r].payload.decision.metadata
                             \cup req[r].payload.signal.metadata :
                    lower(item[1]) \in PrivateKeys )
             => req[r].outcome # "created" /\ RowsBy(r) = {}

\* the kinds of value that are primitive scalars
Primitive == {"str", "long_str", "int"}

\* C27 (as claimed): every value in the metadata stored for a decision or a
\* quality signal is a primitive scalar: no list and no nested object is
\* written into stored decision or signal metadata.
C27_StoredMetadataPrimitive ==
    /\ \A d \in agent_decisions : \A item \in d.decision_metadata : item[2] \in Primitive
    /\ \A g \in agent_quality_signals : \A item \in g.signal_metadata : item[2] \in Primitive

\* the runs of the call's key in its window that have started_at and ended_at
CompletedRuns ==
    LET a == profile_call.args[1]
    IN {run \in agent_runs :
           /\ InWindow(run, a.agent, a.window_start, a.window_end)
           /\ run.ended_at # <<>>}

\* C28 (as claimed): the latency statistics of a built profile are computed
\* over exactly the runs of the key in the window that have both started_at
\* and ended_at: sample_count is the number of such runs, those of duration
\* zero included, and it is 0 with all statistics 0.0 only when there is no
\* such run.
C28_LatencyOverCompletedRuns ==
    profile_call.outcome = "profile" =>
        LET stats == profile_call.result[1].latency_stats
        IN /\ stats.sample_count = Cardinality(CompletedRuns)
           /\ ( /\ stats.sample_count = 0
                /\ stats.mean_run_duration_ms = 0 /\ stats.p50_run_duration_ms = 0
                /\ stats.p95_run_duration_ms = 0 /\ stats.p99_run_duration_ms = 0 )
              => CompletedRuns = {}

\* C29 (as claimed): whatever step contexts a run created, entered and
\* exited, the steps of its outgoing payload carry seq values that are
\* exactly 0..N-1, N the number of recorded steps, so that the payload passes
\* the step-sequence check of ingest.
C29_PayloadStepsSequential ==
    run_ctx.payload # <<>> =>
        LET steps == run_ctx.payload[1].steps
        IN /\ {steps[i] : i \in DOMAIN steps} = 0..(Len(steps) - 1)
           /\ validate_step_sequence(steps)

\* how many entries of list s satisfy Test
CountOf(s, Test(_)) == Cardinality({i \in DOMAIN s : Test(s[i])})

\* C24: emit returns without raising whatever the sinks answer; it writes
\* exactly one log entry for the drift event whatever the configuration; it
\* calls the sender of each enabled sink once and of no other sink, and each
\* enabled sink that has a destination is posted to once, also when the post
\* to an earlier sink failed or timed out; a failed post is logged as an error.
C24_EmitBestEffort ==
    alert_call.outcome # "none" =>
        LET config == alert_call.config[1]
            responses == alert_call.responses[1]
        IN /\ alert_call.outcome = "returned"
           /\ CountOf(alert_call.log, LAMBDA e : e[1] = "warning") = 1
           /\ alert_call.log[1] = <<"warning", "DRIFT_DETECTED">>
           /\ \A sink \in DOMAIN config :
                 /\ CountOf(alert_call.calls, LAMBDA x : x = sink) =
                       (IF config[sink].enabled THEN 1 ELSE 0)
                 /\ CountOf(alert_call.posts, LAMBDA x : x = sink) =
                       (IF config[sink].enabled /\ config[sink].destination
                        THEN 1 ELSE 0)
                 /\ CountOf(alert_call.log, LAMBDA e : e = <<"error", sink>>) =
                       (IF /\ config[sink].enabled /\ config[sink].destination
                           /\ responses[sink] # "ok"
                        THEN 1 ELSE 0)

\* all three sinks are enabled and have a destination; the post to the first
\* times out, the second answers with an error status, and all three were
\* posted to
C24_Witness ==
    /\ alert_call.outcome = "returned"
    /\ \A sink \in {"slack", "pagerduty", "webhook"} :
          alert_call.config[1][sink] = [enabled |-> TRUE, destination |-> TRUE]
    /\ alert_call.responses[1] =
          [slack |-> "timeout", pagerduty |-> "http_error", webhook |-> "ok"]
    /\ alert_call.posts = <<"slack", "pagerduty", "webhook">>

\* the tags are those of the catalog
KnownDecision(decision_type, reason_code) ==
    /\ decision_type \in {"tool_selection", "retry_strategy"}
    /\ decision_type = "tool_selection" =>
          reason_code \in {"fresh_data_required", "cost_optimization"}
    /\ decision_type = "retry_strategy" => reason_code = "backoff_required"

KnownSignal(signal_type, signal_code) ==
    /\ signal_type \in {"schema_valid", "tool_failure"}
    /\ signal_type = "schema_valid" => signal_code \in {"full_match", "partial_match"}
    /\ signal_type = "tool_failure" => signal_code = "timeout"

\* C12 (as claimed): a decision or quality signal whose type or code is not
\* in the catalog is rejected by ingest validation, so never stored, and by
\* the SDK's record_decision / record_quality_signal, so never part of the
\* run's recorded lists or outgoing payload.
C12_UnknownTagsRejected ==
    /\ \A d \in agent_decisions : KnownDecision(d.decision_type, d.reason_code)
    /\ \A g \in agent_quality_signals : KnownSignal(g.signal_type, g.signal_code)
    /\ \A r \in Requests :
          ( /\ Finished(r)
            /\ \/ ~KnownDecision(req[r].payload.decision.decision_type,
                                  req[r].payload.decision.reason_code)
               \/ ~KnownSignal(req[r].payload.signal.signal_type,
                                req[r].payload.signal.signal_code) )
          => req[r].outcome = "rejected" /\ RowsBy(r) = {}
    /\ \A i \in DOMAIN run_ctx._decisions :
          KnownDecision(run_ctx._decisions[i].decision_type,
                        run_ctx._decisions[i].reason_code)
    /\ \A i \in DOMAIN run_ctx._quality_signals :
          KnownSignal(run_ctx._quality_signals[i].signal_type,
                      run_ctx._quality_signals[i].signal_code)

\* ingest validation alone: unknown tags never reach the tables
IngestRejectsUnknownTags ==
    /\ \A d \in agent_decisions : KnownDecision(d.decision_type, d.reason_code)
    /\ \A g \in agent_quality_signals : KnownSignal(g.signal_type, g.signal_code)
    /\ \A r \in Requests :
          ( /\ Finished(r)
            /\ \/ ~KnownDecision(req[r].payload.decision.decision_type,
                                  req[r].payload.decision.reason_code)
               \/ ~KnownSignal(req[r].payload.signal.signal_type,
                                req[r].payload.signal.signal_code) )
          => req[r].outcome = "rejected" /\ RowsBy(r) = {}

\* the stored runs of the key with window_start <= started_at < window_end
RunsOfWindow(a) ==
    {run \in agent_runs :
        /\ run.agent = a.agent
        /\ a.window_start <= run.started_at
        /\ run.started_at < a.window_end}

\* C13: build_profile fails with InsufficientDataError exactly when the
\* number of stored runs of the key with window_start <= started_at <
\* window_end is below min_sample_size; a returned profile has sample_size
\* equal to that number, hence >= min_sample_size.
C13_InsufficientDataExactlyBelowMinimum ==
    profile_call.outcome # "none" =>
        LET a == profile_call.args[1]
            count == Cardinality(RunsOfWindow(a))
        IN /\ profile_call.outcome = "InsufficientDataError" <=>
                 count < a.min_sample_size
           /\ profile_call.outcome = "profile" =>
                 /\ profile_call.result[1].sample_size = count
                 /\ profile_call.result[1].sample_size >= a.min_sample_size

\* a profile was built from a window that holds some runs of the key while
\* another run of the key starts exactly at window_end
C13_Witness ==
    /\ profile_call.outcome = "profile"
    /\ profile_call.result[1].sample_size >= 2
    /\ profile_call.result[1].sample_size = profile_call.args[1].min_sample_size
    /\ \E run \in agent_runs :
          /\ run.agent = profile_call.args[1].agent
          /\ run.started_at = profile_call.args[1].window_end

\* the baseline and the profile the detect_drift call compared
CallBaseline == behavior_baselines[drift_call.args[1].baseline_id]
CallBaselineProfile == behavior_profiles[CallBaseline.profile_id]

\* C14: detect_drift is all-or-nothing: when it returns, every event it
\* returns is stored and nothing else was stored; when it fails (insufficient
\* observed data, baseline profile missing, or the commit fails) no event is
\* stored and none is returned.
C14_DetectDriftAllOrNothing ==
    /\ drift_call.outcome = "returned" => behavior_drift = drift_call.result
    /\ drift_call.outcome # "returned" =>
          behavior_drift = <<>> /\ drift_call.result = <<>>

\* the commit failed in a call that had built a latency event (baseline mean
\* 1250 ms, every observed run 2000 ms), and nothing is stored
C14_Witness ==
    /\ drift_call.outcome = "commit_error"
    /\ agent_runs # {}
    /\ \A run \in agent_runs : run.ended_at = <<3>>
    /\ DOMAIN behavior_profiles # {}
    /\ CallBaselineProfile.latency_stats.mean_run_duration_ms = 125000
    /\ behavior_drift = <<>>

\* the events of the call for option o of tag t
EventsOf(drift_type, metric) ==
    {i \in DOMAIN drift_call.result :
        /\ drift_call.result[i].drift_type = drift_type
        /\ drift_call.result[i].metric = metric}

\* |(observed - baseline) / baseline * 100| >= k for the fractions baseline
\* and observed, taken as 0 when baseline is 0
ChangeAtLeast(baseline_value, observed_value, k) ==
    LET num == observed_value[1] * baseline_value[2]
                 - baseline_value[1] * observed_value[2]
        den == observed_value[2] * baseline_value[1]
    IN IF baseline_value[1] = 0 THEN 0 >= k
       ELSE (IF num < 0 THEN 0 - num ELSE num) * 100 >= k * den

ProbabilityOf(dist, o) == IF o \in DOMAIN dist THEN dist[o] ELSE <<0, 1>>

\* for the distributions of one kind: an event for an option exactly when
\* the p-value is <= 0.05 or 1.0 and the change is at least min_delta
EmittedExactlyWhenSignificant(drift_type, baseline_dists, observed_dists, tests, min_delta) ==
    /\ DOMAIN tests =
          {t \in DOMAIN baseline_dists \cap DOMAIN observed_dists :
              DOMAIN baseline_dists[t] # {} /\ DOMAIN observed_dists[t] # {}}
    /\ \A t \in DOMAIN tests :
          \A o \in DOMAIN baseline_dists[t] \cup DOMAIN observed_dists[t] :
             Cardinality(EventsOf(drift_type, <<t, o>>)) =
                (IF /\ tests[t] <= 50 \/ tests[t] = 1000
                    /\ ChangeAtLeast(ProbabilityOf(baseline_dists[t], o),
                                     ProbabilityOf(observed_dists[t], o), min_delta)
                 THEN 1 ELSE 0)
    /\ \A i \in DOMAIN drift_call.result :
          drift_call.result[i].drift_type = drift_type =>
             /\ drift_call.result[i].metric[1] \in DOMAIN tests
             /\ drift_call.result[i].significance =
                   tests[drift_call.result[i].metric[1]]

\* C15: for a decision type (signal type) present and non-empty in both
\* profiles, detect_drift returns an event for an option exactly when the
\* tag's p-value is <= 0.05 or equals 1.0 and |delta_percent| >= 10 for a
\* decision, >= 15 for a signal; other tags get no event.
C15_EventExactlyWhenSignificant ==
    drift_call.outcome = "returned" =>
        /\ EmittedExactlyWhenSignificant("decision",
               CallBaselineProfile.decision_distributions,
               drift_call.observed[1].decision_distributions,
               drift_call.tests[1].decision, 10)
        /\ EmittedExactlyWhenSignificant("signal",
               CallBaselineProfile.signal_distributions,
               drift_call.observed[1].signal_distributions,
               drift_call.tests[1].signal, 15)

\* a call with p = 0.05 returned a decision event of exactly +10 % (5/11 to
\* 1/2) but none for the other option (-8.3 %), and a signal event of exactly
\* +15 % (10/23 to 1/2) but none for the other code (-11.5 %)
C15_Witness ==
    /\ drift_call.outcome = "returned"
    /\ drift_call.tests[1].decision = [tool_selection |-> 50]
    /\ drift_call.tests[1].signal = [schema_valid |-> 50]
    /\ \E i \in EventsOf("decision", <<"tool_selection", "call_api">>) :
          /\ drift_call.result[i].baseline_value = <<5, 11>>
          /\ drift_call.result[i].observed_value = <<1, 2>>
    /\ EventsOf("decision", <<"tool_selection", "use_cache">>) = {}
    /\ \E i \in EventsOf("signal", <<"schema_valid", "full_match">>) :
          /\ drift_call.result[i].baseline_value = <<10, 23>>
          /\ drift_call.result[i].observed_value = <<1, 2>>
    /\ EventsOf("signal", <<"schema_valid", "partial_match">>) = {}

\* |delta_percent| of a stored event is at most k
MagnitudeAtMost(event, k) ==
    (IF event.delta_percent[1] < 0 THEN 0 - event.delta_percent[1]
     ELSE event.delta_percent[1]) <= k * event.delta_percent[2]

LatencyMetrics == {"mean_run_duration_ms", "p95_run_duration_ms"}

\* C17: for each of the mean and the p95 run duration detect_drift returns
\* exactly one latency event when the baseline and the observed value are
\* both above zero and the change is at least 20 % of the baseline, and none
\* otherwise; a latency event has test_method percent_threshold and
\* significance 1.0.
C17_LatencyEventExactlyWhenChanged ==
    drift_call.outcome = "returned" =>
        /\ \A metric \in LatencyMetrics :
              LET baseline_value == CallBaselineProfile.latency_stats[metric]
                  observed_value == drift_call.observed[1].latency_stats[metric]
                  change == IF observed_value < baseline_value
                            THEN baseline_value - observed_value
                            ELSE observed_value - baseline_value
              IN Cardinality(EventsOf("latency", <<metric>>)) =
                    (IF /\ baseline_value > 0
                        /\ observed_value > 0
                        /\ change * 100 >= 20 * baseline_value
                     THEN 1 ELSE 0)
        /\ \A i \in DOMAIN drift_call.result :
              drift_call.result[i].drift_type = "latency" =>
                 /\ drift_call.result[i].metric \in {<<m>> : m \in LatencyMetrics}
                 /\ drift_call.result[i].test_method = "percent_threshold"
                 /\ drift_call.result[i].significance = 1000

\* the mean went from 1250 ms to 1500 ms, exactly 20 %, and the call returned
\* one event for it; the baseline p95 is 0 and the observed one is not, and
\* there is no event for it
C17_Witness ==
    /\ drift_call.outcome = "returned"
    /\ CallBaselineProfile.latency_stats.mean_run_duration_ms = 125000
    /\ drift_call.observed[1].latency_stats.mean_run_duration_ms = 150000
    /\ Cardinality(EventsOf("latency", <<"mean_run_duration_ms">>)) = 1
    /\ CallBaselineProfile.latency_stats.p95_run_duration_ms = 0
    /\ drift_call.observed[1].latency_stats.p95_run_duration_ms > 0
    /\ EventsOf("latency", <<"p95_run_duration_ms">>) = {}

\* C18 (as claimed): a resolved_at that is set never changes: a resolve
\* request that finishes when the event already has a resolved_at, whether it
\* came later or interleaved with the first, is answered 400 and leaves the
\* timestamp alone; a request for an unknown drift_id is answered 404 and
\* changes nothing.
C18_ResolvedAtSetOnce ==
    [][/\ \A i \in DOMAIN behavior_drift :
             behavior_drift[i].resolved_at # <<>> =>
                behavior_drift'[i].resolved_at = behavior_drift[i].resolved_at
       /\ \A c \in Callers :
             resolve_call'[c].pc = "done" /\ resolve_call[c].pc # "done" =>
                LET drift_id == resolve_call'[c].drift_id
                IN IF drift_id \notin DOMAIN behavior_drift
                   THEN /\ resolve_call'[c].status = 404
                        /\ behavior_drift' = behavior_drift
                   ELSE behavior_drift[drift_id].resolved_at # <<>> =>
                           resolve_call'[c].status = 400]_vars

\* with requests served one after the other the same holds: a request that
\* starts when no other is in progress and finds resolved_at set gets 400
ResolveOneAtATime ==
    [][\A c \in Callers :
          /\ \A other \in Callers \ {c} : resolve_call[other].pc # "commit"
          /\ resolve_call'[c] # resolve_call[c]
          /\ resolve_call[c].pc # "commit"
          /\ resolve_call'[c].drift_id \in DOMAIN behavior_drift
          /\ behavior_drift[resolve_call'[c].drift_id].resolved_at # <<>>
          => resolve_call'[c].status = 400 /\ behavior_drift' = behavior_drift]_vars

\* the columns of a baseline no operation may change
Immutable(row) ==
    <<row.profile_id, row.key, row.baseline_type, row.description, row.created_at>>

\* the rows differ at most in the named columns
SameExcept(old, new, columns) ==
    \A f \in DOMAIN old \ columns : new[f] = old[f]

\* C19: with calls issued one at a time, no Baseline Manager operation
\* changes a stored baseline's profile_id, agent key, baseline_type,
\* description or created_at; approve_baseline changes only approved_by and
\* approved_at of its target, and activate_baseline / deactivate_baseline
\* change only is_active of baselines of the target's key.
C19_BaselineImmutable ==
    [][\A b \in DOMAIN behavior_baselines :
          /\ b \in DOMAIN behavior_baselines'
          /\ Immutable(behavior_baselines'[b]) = Immutable(behavior_baselines[b])
          /\ \A c \in Callers :
                sess[c].pc = "commit" /\ sess'[c].pc = "done" =>
                   /\ sess[c].op = "approve" =>
                         /\ b # sess[c].target =>
                               behavior_baselines'[b] = behavior_baselines[b]
                         /\ SameExcept(behavior_baselines[b], behavior_baselines'[b],
                                       {"approved_by", "approved_at"})
                   /\ sess[c].op \in {"activate", "deactivate"} =>
                         /\ SameExcept(behavior_baselines[b], behavior_baselines'[b],
                                       {"is_active"})
                         /\ behavior_baselines[b].key
                               # behavior_baselines[sess[c].target].key =>
                               behavior_baselines'[b] = behavior_baselines[b]]_vars

\* an active baseline created at time 0 was approved at time 1, and another
\* baseline of its key, once active, has been replaced by it
C19_Witness ==
    \E b \in DOMAIN behavior_baselines, other \in DOMAIN behavior_baselines :
        /\ sess["c1"].pc = "done" /\ sess["c1"].op = "approve" /\ sess["c1"].ok
        /\ sess["c1"].target = b
        /\ behavior_baselines[b].created_at = <<0>>
        /\ behavior_baselines[b].approved_at = <<1>>
        /\ behavior_baselines[b].approved_by # None
        /\ behavior_baselines[b].is_active
        /\ other # b
        /\ behavior_baselines[other].key = behavior_baselines[b].key
        /\ ~behavior_baselines[other].is_active

\* the stored baselines that reference the profile
BaselinesOf(profile) ==
    {b \in DOMAIN behavior_baselines : behavior_baselines[b].profile_id = profile}

\* C20 (as claimed): create_baseline for a profile_id that already has a
\* baseline fails, so a create_baseline call that has returned a baseline
\* made the only baseline of its profile, and every profile is referenced by
\* at most one stored baseline.
C20_OneBaselinePerProfile ==
    /\ \A profile \in ProfileIds : Cardinality(BaselinesOf(profile)) <= 1
    /\ \A c \in Callers :
          sess[c].pc = "done" /\ sess[c].op = "create" /\ sess[c].ok =>
             \A b \in BaselinesOf(behavior_baselines[sess[c].target].profile_id) :
                b >= sess[c].target

\* the caller's call of one of the operations begins in this step
Begins(c, ops) ==
    /\ sess[c].pc \in {"idle", "done"}
    /\ sess'[c] # sess[c]
    /\ sess'[c].op \in ops

\* C21: with calls issued one at a time, activate_baseline,
\* deactivate_baseline and approve_baseline for a baseline_id that is not
\* stored fail with BaselineNotFoundError, at once and without changing a
\* stored baseline or leaving anything to commit.
C21_UnknownBaselineNotFound ==
    [][\A c \in Callers :
          /\ Begins(c, {"activate", "deactivate", "approve"})
          /\ sess'[c].arg \notin DOMAIN behavior_baselines
          => /\ sess'[c].pc = "done" /\ ~sess'[c].ok
             /\ sess'[c].objs = <<>> /\ sess'[c].ins = {}
             /\ behavior_baselines' = behavior_baselines]_vars

\* approve_baseline for a baseline_id that is not stored has failed while
\* an active, unapproved baseline is stored
C21_Witness ==
    /\ sess["c1"].pc = "done" /\ sess["c1"].op = "approve" /\ ~sess["c1"].ok
    /\ sess["c1"].arg \notin DOMAIN behavior_baselines
    /\ \E b \in DOMAIN behavior_baselines :
          behavior_baselines[b].is_active /\ behavior_baselines[b].approved_by = None

\* the description has more than 200 characters or is one of the inputs
\* that hold the forbidden keyword text: "Text" and "context"
BadDescription(description) ==
    /\ description # <<>>
    /\ \/ Len(description[1]) > 200
       \/ description[1] \in {<<"T", "e", "x", "t">>,
                              <<"c", "o", "n", "t", "e", "x", "t">>}

\* C22: create_baseline with a baseline_type outside version, time_window,
\* manual, a description longer than 200 characters or a description
\* holding a forbidden keyword fails before anything is written: no insert
\* is pending and the stored baselines are as they were.
C22_InvalidCreateWritesNothing ==
    [][\A c \in Callers :
          /\ Begins(c, {"create"})
          /\ \/ sess'[c].input[1] \notin {"version", "time_window", "manual"}
             \/ BadDescription(sess'[c].input[2])
          => /\ sess'[c].pc = "done" /\ ~sess'[c].ok
             /\ sess'[c].ins = {} /\ sess'[c].objs = <<>>
             /\ behavior_baselines' = behavior_baselines]_vars

\* create_baseline with description "Text" (type version) has failed while
\* an active baseline with a description of 200 characters is stored
C22_Witness ==
    /\ sess["c1"].pc = "done" /\ sess["c1"].op = "create" /\ ~sess["c1"].ok
    /\ sess["c1"].input = <<"version", <<<<"T", "e", "x", "t">>>>>>
    /\ \E b \in DOMAIN behavior_baselines :
          /\ behavior_baselines[b].is_active
          /\ behavior_baselines[b].description # <<>>
          /\ Len(behavior_baselines[b].description[1]) = 200

\* C23 (as claimed): approve_baseline(b, user) for a baseline that an
\* earlier approve_baseline(b, user) call has approved returns without
\* error and leaves b as it was, approved_at included.
C23_ApproveIdempotent ==
    [][\A c \in Callers :
          /\ sess[c].pc = "commit" /\ sess'[c].pc = "done"
          /\ sess[c].op = "approve"
          /\ behavior_baselines[sess[c].target].approved_by
                = sess[c].objs[sess[c].target].approved_by
          => /\ sess'[c].ok
             /\ behavior_baselines'[sess[c].target]
                   = behavior_baselines[sess[c].target]]_vars

\* C25 (as claimed): all drift events one detect_drift call returns carry
\* the same detected_at, also when the clock advances between the creation
\* of two of them.
C25_SameDetectedAt ==
    \A i, j \in DOMAIN drift_call.result :
        drift_call.result[i].detected_at = drift_call.result[j].detected_at

\* the options of the model in lexicographic order
Lexicographic == <<"call_api", "full_match", "partial_match", "use_cache">>

Rank(option) == CHOOSE i \in DOMAIN Lexicographic : Lexicographic[i] = option

\* C26 (as claimed): what a detect_drift call returns is determined by the
\* baseline profile and the observed profile: the decision and signal events
\* of one tag come in the lexicographic order of their options.
C26_OptionsInSortedOrder ==
    \A i, j \in DOMAIN drift_call.result :
        /\ i < j
        /\ drift_call.result[i].drift_type \in {"decision", "signal"}
        /\ drift_call.result[i].drift_type = drift_call.result[j].drift_type
        /\ drift_call.result[i].metric[1] = drift_call.result[j].metric[1]
        => Rank(drift_call.result[i].metric[2]) < Rank(drift_call.result[j].metric[2])

====
